---- MODULE Spec2Model ----
(***************************************************************************)
(* Edition commit of the event service (src/app/operations/                *)
(* commit_edition.rs): gap analysis over cut markers, cloning of the       *)
(* source room, the clone-events SQL statement (outer join of events and   *)
(* changes, gap compression, tie-break) and the stripping of cut markers.  *)
(*                                                                         *)
(* Time.  occurred_at is a signed 64-bit count of nanoseconds in the code. *)
(* TLC's integers are 32-bit, so the literal scenarios of the unit tests   *)
(* are written in ticks of 10^5 ns (3_000_000_000 ns = 30000 ticks) and    *)
(* NANOSECONDS_IN_MILLISECOND is scaled alike; the tie-break increment of  *)
(* the SQL (+1 ns per row) is one tick.  The enumerated inputs use ticks   *)
(* 0..MaxTime.                                                             *)
(***************************************************************************)
EXTENDS Integers, Sequences, FiniteSets, TLC

VARIABLES rooms, events, changes, task, clock, origin, outbox, store0, editions,
          request

vars == <<rooms, events, changes, task, clock, origin, outbox, store0, editions, request>>

---------------------------------------------------------------------------
(* Bounds of the enumerated inputs *)

MaxTime == 2

MaxCuts == 4

MaxCreated == 2

MaxMessages == 2

MaxJoinEvents == 2

MaxGaps == 2

(* 10^6 ns in ticks of 10^5 ns *)
NANOSECONDS_IN_MILLISECOND == 10

---------------------------------------------------------------------------
(* Option<T> and SQL NULL *)

None == <<>>

Some(x) == <<x>>

IsSome(o) == o # <<>>

Get(o) == o[1]

COALESCE(a, b) == IF a # None THEN a ELSE b

Range(s) == {s[i] : i \in DOMAIN s}

Min2(a, b) == IF a < b THEN a ELSE b

---------------------------------------------------------------------------
(* Rows *)

SourceRoom == 1

TheEdition == 1

\* db::event::Object as the commit reads and writes it
EventRow(id, room_id, kind, set, label, data, occurred_at, created_by, created_at, deleted_at) ==
    [id |-> id, room_id |-> room_id, kind |-> kind, set |-> set, label |-> label,
     attribute |-> None, data |-> data, occurred_at |-> occurred_at,
     created_by |-> created_by, created_at |-> created_at, deleted_at |-> deleted_at]

\* db::change::Object: kind and the optional overrides
ChangeRow(id, kind, event_id, event_kind, event_set, event_label, event_data, event_occurred_at, event_created_by) ==
    [id |-> id, edition_id |-> TheEdition, kind |-> kind, event_id |-> event_id,
     event_kind |-> event_kind, event_set |-> event_set, event_label |-> event_label,
     event_data |-> event_data, event_occurred_at |-> event_occurred_at,
     event_created_by |-> event_created_by]

\* data.get("cut").and_then(|v| v.as_str())
CutCommand(data) == IF "cut" \in DOMAIN data THEN Some(data.cut) ELSE None

---------------------------------------------------------------------------
(* Queries of the db module *)

\* canonical order of the event log: occurred_at, created_at, id
EventBefore(a, b) ==
    \/ a.occurred_at < b.occurred_at
    \/ a.occurred_at = b.occurred_at /\ a.created_at < b.created_at
    \/ a.occurred_at = b.occurred_at /\ a.created_at = b.created_at /\ a.id < b.id

RECURSIVE SortEvents(_)
SortEvents(S) ==
    IF S = {} THEN <<>>
    ELSE LET m == CHOOSE x \in S : \A y \in S \ {x} : EventBefore(x, y)
         IN <<m>> \o SortEvents(S \ {m})

RECURSIVE SortById(_)
SortById(S) ==
    IF S = {} THEN <<>>
    ELSE LET m == CHOOSE x \in S : \A y \in S : x.id <= y.id
         IN <<m>> \o SortById(S \ {m})

\* EventListQuery::new().room_id(room).kind(kind): live rows of the room
EventListQuery(evs, room_id, kind) ==
    SortEvents({e \in evs : e.room_id = room_id /\ e.kind = kind /\ e.deleted_at = None})

\* EventListQuery::new().room_id(room): live rows of the room
EventListAll(evs, room_id) ==
    SortEvents({e \in evs : e.room_id = room_id /\ e.deleted_at = None})

\* ChangeListQuery::new(edition).kind(kind): changes whose event_kind is kind
ChangeListQuery(chs, edition_id, kind) ==
    SortById({c \in chs : c.edition_id = edition_id /\ c.event_kind = Some(kind)})

EventDeleteQueryMutantAnyRoom(evs, room_id, kind) == {e \in evs : e.kind # kind}

\* EventDeleteQuery::new(room, kind)
EventDeleteQuery(evs, room_id, kind) ==
    {e \in evs : ~(e.room_id = room_id /\ e.kind = kind)}

---------------------------------------------------------------------------
(* collect_gaps *)

Stopped == [tag |-> "Stopped", start |-> 0, nest_lvl |-> 0]

Started(start, nest_lvl) == [tag |-> "Started", start |-> start, nest_lvl |-> nest_lvl]

\* EventOrChangeAtDur
CutOfEvent(ev) == [src |-> "Event", id |-> ev.id, key |-> Some(ev.occurred_at),
                   command |-> Some(CutCommand(ev.data)), occurred_at |-> Some(ev.occurred_at)]

CutOfChange(ch) == [src |-> "Change", id |-> ch.id, key |-> ch.event_occurred_at,
                    command |-> IF ch.event_data = None THEN None
                                ELSE Some(CutCommand(Get(ch.event_data))),
                    occurred_at |-> ch.event_occurred_at]

\* cut_vec before the sort: the events, then the changes
CutVec(cut_events, cut_changes) ==
    [i \in 1..Len(cut_events) |-> CutOfEvent(cut_events[i])]
      \o [i \in 1..Len(cut_changes) |-> CutOfChange(cut_changes[i])]

\* sort_by_key is stable: an element goes after those whose key is <= its own
RECURSIVE InsertByKey(_, _)
InsertByKey(s, x) ==
    IF s = <<>> THEN <<x>>
    ELSE IF Get(s[Len(s)].key) <= Get(x.key) THEN Append(s, x)
    ELSE Append(InsertByKey(SubSeq(s, 1, Len(s) - 1), x), s[Len(s)])

SortByKeyMutantUnsorted(s) == s

RECURSIVE SortByKey(_)
SortByKey(s) ==
    IF s = <<>> THEN <<>>
    ELSE InsertByKey(SortByKey(SubSeq(s, 1, Len(s) - 1)), s[Len(s)])

\* one arm of match (command, &mut state)
GapStepMutantNoNest(state, command, occurred_at) ==
    IF command = Some("start") /\ state.tag = "Stopped"
      THEN [ok |-> TRUE, state |-> Started(occurred_at, 0), gap |-> None]
    ELSE IF command = Some("start") /\ state.tag = "Started"
      THEN [ok |-> TRUE, state |-> state, gap |-> None]
    ELSE IF command = Some("stop") /\ state.tag = "Started"
      THEN [ok |-> TRUE, state |-> Stopped, gap |-> Some(<<state.start, occurred_at>>)]
    ELSE [ok |-> FALSE, state |-> state, gap |-> None]

GapStepMutantLenient(state, command, occurred_at) ==
    IF command = Some("start") /\ state.tag = "Stopped"
      THEN [ok |-> TRUE, state |-> Started(occurred_at, 0), gap |-> None]
    ELSE IF command = Some("start") /\ state.tag = "Started"
      THEN [ok |-> TRUE, state |-> Started(state.start, state.nest_lvl + 1), gap |-> None]
    ELSE IF command = Some("stop") /\ state.tag = "Started" /\ state.nest_lvl = 0
      THEN [ok |-> TRUE, state |-> Stopped, gap |-> Some(<<state.start, occurred_at>>)]
    ELSE IF command = Some("stop") /\ state.tag = "Started"
      THEN [ok |-> TRUE, state |-> Started(state.start, state.nest_lvl - 1), gap |-> None]
    ELSE IF command = Some("stop")
      THEN [ok |-> TRUE, state |-> state, gap |-> None]
    ELSE [ok |-> FALSE, state |-> state, gap |-> None]

GapStep(state, command, occurred_at) ==
    IF command = Some("start") /\ state.tag = "Stopped"
      THEN [ok |-> TRUE, state |-> Started(occurred_at, 0), gap |-> None]
    ELSE IF command = Some("start") /\ state.tag = "Started"
      THEN [ok |-> TRUE, state |-> Started(state.start, state.nest_lvl + 1), gap |-> None]
    ELSE IF command = Some("stop") /\ state.tag = "Started" /\ state.nest_lvl = 0
      THEN [ok |-> TRUE, state |-> Stopped, gap |-> Some(<<state.start, occurred_at>>)]
    ELSE IF command = Some("stop") /\ state.tag = "Started"
      THEN [ok |-> TRUE, state |-> Started(state.start, state.nest_lvl - 1), gap |-> None]
    ELSE [ok |-> FALSE, state |-> state, gap |-> None]

\* the loop over cut_vec from position i, with the gaps pushed so far
RECURSIVE GapLoop(_, _, _, _)
GapLoop(cut_vec, i, state, gaps) ==
    IF i > Len(cut_vec)
      THEN [status |-> "ok", gaps |-> gaps, state |-> state, at |-> 0]
    ELSE IF cut_vec[i].command = None
      THEN [status |-> "panic", gaps |-> <<>>, state |-> state, at |-> i]
    ELSE LET r == GapStep(state, Get(cut_vec[i].command), Get(cut_vec[i].occurred_at))
         IN IF ~r.ok
              THEN [status |-> "err", gaps |-> <<>>, state |-> state, at |-> i]
            ELSE GapLoop(cut_vec, i + 1, r.state,
                         IF r.gap = None THEN gaps ELSE Append(gaps, Get(r.gap)))

collect_gaps(cut_events, cut_changes) ==
    LET cut_vec == CutVec(cut_events, cut_changes)
    IN IF \E i \in DOMAIN cut_vec : cut_vec[i].key = None
         THEN [status |-> "panic", gaps |-> <<>>, state |-> Stopped, at |-> 0]
       ELSE GapLoop(SortByKey(cut_vec), 1, Stopped, <<>>)

---------------------------------------------------------------------------
(* clone_events: the gaps CTE *)
RECURSIVE SqueezeFromMutantNoClamp(_, _, _)
SqueezeFromMutantNoClamp(gaps, i, occurred_at) ==
    IF i > Len(gaps) THEN 0
    ELSE (IF gaps[i][1] < occurred_at THEN gaps[i][2] - gaps[i][1] ELSE 0)
           + SqueezeFromMutantNoClamp(gaps, i + 1, occurred_at)

\* the gaps CTE pairs starts[i] with stops[i]; the scalar subquery
\* SELECT COALESCE(SUM(LEAST(stop, occurred_at) - start), 0) FROM gaps
\* WHERE start < occurred_at, for a non-NULL occurred_at, over gaps i..
RECURSIVE SqueezeFrom(_, _, _)
SqueezeFrom(gaps, i, occurred_at) ==
    IF i > Len(gaps) THEN 0
    ELSE (IF gaps[i][1] < occurred_at
            THEN Min2(gaps[i][2], occurred_at) - gaps[i][1]
            ELSE 0) + SqueezeFrom(gaps, i + 1, occurred_at)

SqueezeAt(gaps, occurred_at) == SqueezeFrom(gaps, 1, occurred_at)

---------------------------------------------------------------------------
(* clone_events: the joined rows and their columns *)

LiveSourceEvents(evs, source_id) ==
    {e \in evs : e.room_id = source_id /\ e.deleted_at = None}

EditionChangesMutantAnyEdition(chs, edition_id) == chs

EditionChanges(chs, edition_id) == {c \in chs : c.edition_id = edition_id}

\* FULL OUTER JOIN ... ON change.event_id = event.id
FullOuterJoin(E, C) ==
    {[event |-> Some(e), change |-> Some(c)] :
        <<e, c>> \in {p \in E \X C : p[2].event_id = Some(p[1].id)}}
    \cup {[event |-> Some(e), change |-> None] :
            e \in {x \in E : \A c \in C : c.event_id # Some(x.id)}}
    \cup {[event |-> None, change |-> Some(c)] :
            c \in {x \in C : \A e \in E : x.event_id # Some(e.id)}}

\* WHERE (... OR event.id IS NULL) AND ((... AND change.kind <> 'removal') OR change.id IS NULL)
JoinWhere(r) == r.change = None \/ Get(r.change).kind # "removal"

JoinedRows(evs, chs, source_id, edition_id) ==
    {r \in FullOuterJoin(LiveSourceEvents(evs, source_id), EditionChanges(chs, edition_id)) :
        JoinWhere(r)}

\* change.kind, NULL when the row has no change
ChangeKind(r) == IF r.change = None THEN "none" ELSE Get(r.change).kind

\* a column of the event side, NULL when the row has no event
EventCol(r, col) == IF r.event = None THEN None ELSE
    CASE col = "kind" -> Some(Get(r.event).kind)
      [] col = "set" -> Some(Get(r.event).set)
      [] col = "label" -> Get(r.event).label
      [] col = "data" -> Some(Get(r.event).data)
      [] col = "occurred_at" -> Some(Get(r.event).occurred_at)
      [] col = "created_by" -> Some(Get(r.event).created_by)
      [] col = "created_at" -> Some(Get(r.event).created_at)

RowKind(r) ==
    CASE ChangeKind(r) = "addition" -> Get(r.change).event_kind
      [] ChangeKind(r) = "modification" ->
            COALESCE(Get(r.change).event_kind, EventCol(r, "kind"))
      [] OTHER -> EventCol(r, "kind")

RowSet(r) ==
    CASE ChangeKind(r) = "addition" ->
            COALESCE(Get(r.change).event_set, Get(r.change).event_kind)
      [] ChangeKind(r) = "modification" ->
            COALESCE(Get(r.change).event_set,
              COALESCE(EventCol(r, "set"),
                COALESCE(Get(r.change).event_kind, EventCol(r, "kind"))))
      [] OTHER -> EventCol(r, "set")

RowLabel(r) ==
    CASE ChangeKind(r) = "addition" -> Get(r.change).event_label
      [] ChangeKind(r) = "modification" ->
            COALESCE(Get(r.change).event_label, EventCol(r, "label"))
      [] OTHER -> EventCol(r, "label")

RowData(r) ==
    CASE ChangeKind(r) = "addition" -> Get(r.change).event_data
      [] ChangeKind(r) = "modification" ->
            COALESCE(Get(r.change).event_data, EventCol(r, "data"))
      [] OTHER -> EventCol(r, "data")

\* the CASE of lines 211-215: the change-applied occurred_at
RowBaseOccurredAt(r) ==
    CASE ChangeKind(r) = "addition" -> Get(r.change).event_occurred_at
      [] ChangeKind(r) = "modification" ->
            COALESCE(Get(r.change).event_occurred_at, EventCol(r, "occurred_at"))
      [] OTHER -> EventCol(r, "occurred_at")

\* the scalar subquery of lines 216-220.  Inside it the unqualified name
\* occurred_at is a column of the joined tables, and the only one of that
\* name is event.occurred_at (the change's column is event_occurred_at; the
\* output alias is not in scope).  With no event it is NULL: no gap
\* satisfies start < NULL and the COALESCE gives 0.
RowSqueeze(r, gaps) ==
    IF r.event = None THEN 0
    ELSE SqueezeAt(gaps, Get(r.event).occurred_at)

RowOccurredAtMutantNoSqueeze(r, gaps) == RowBaseOccurredAt(r)

\* occurred_at of the subquery: change-applied value minus the squeeze
RowOccurredAt(r, gaps) ==
    IF RowBaseOccurredAt(r) = None THEN None
    ELSE Some(Get(RowBaseOccurredAt(r)) - RowSqueeze(r, gaps))

RowCreatedBy(r) ==
    CASE ChangeKind(r) = "addition" -> Get(r.change).event_created_by
      [] OTHER -> EventCol(r, "created_by")

\* COALESCE(event.created_at, NOW())
RowCreatedAt(r, now) == Get(COALESCE(EventCol(r, "created_at"), Some(now)))

\* the rows of "subquery"
Subquery(evs, chs, source_id, edition_id, gaps, now) ==
    {[event |-> r.event, change |-> r.change,
      kind |-> RowKind(r), set |-> RowSet(r), label |-> RowLabel(r),
      data |-> RowData(r), occurred_at |-> RowOccurredAt(r, gaps),
      created_by |-> RowCreatedBy(r), created_at |-> RowCreatedAt(r, now)] :
        r \in JoinedRows(evs, chs, source_id, edition_id)}

\* the NOT NULL columns of the event table among those inserted
NotNullOk(row) ==
    /\ row.kind # None
    /\ row.set # None
    /\ row.data # None
    /\ row.occurred_at # None
    /\ row.created_by # None

---------------------------------------------------------------------------
(* clone_events: ROW_NUMBER() OVER (PARTITION BY occurred_at ORDER BY       *)
(* created_at).  Rows of one partition with equal created_at are numbered  *)
(* in an order the statement does not fix: every order is a behaviour.     *)

WindowBeforeMutantNoOrder(a, b) == a.occurred_at[1] < b.occurred_at[1]

WindowBefore(a, b) ==
    \/ a.occurred_at[1] < b.occurred_at[1]
    \/ a.occurred_at[1] = b.occurred_at[1] /\ a.created_at < b.created_at

RECURSIVE WindowOrders(_)
WindowOrders(S) ==
    IF S = {} THEN {<<>>}
    ELSE UNION {{<<x>> \o o : o \in WindowOrders(S \ {x})} :
                  x \in {m \in S : \A y \in S : ~WindowBefore(y, m)}}

\* ROW_NUMBER() of the row at position i of an order
RowNumber(o, i) == Cardinality({j \in 1..i : o[j].occurred_at = o[i].occurred_at})

\* occurred_at + ROW_NUMBER() OVER (...) - 1
TieBreak(o, i) == Get(o[i].occurred_at) + RowNumber(o, i) - 1

MaxId(S) == IF S = {} THEN 0 ELSE CHOOSE m \in {x.id : x \in S} : \A x \in S : x.id <= m

\* the rows INSERTed for one order o of the subquery; gen_random_uuid() is
\* a fresh id per row
InsertedRows(o, destination_id, first_id) ==
    {[id |-> first_id + i, room_id |-> destination_id, kind |-> Get(o[i].kind),
      set |-> Get(o[i].set), label |-> o[i].label, attribute |-> None,
      data |-> Get(o[i].data), occurred_at |-> TieBreak(o, i),
      created_by |-> Get(o[i].created_by), created_at |-> o[i].created_at,
      deleted_at |-> None] : i \in DOMAIN o}

\* history: which event and change each inserted row was computed from
InsertedOrigin(o, destination_id, first_id) ==
    [id \in {first_id + i : i \in DOMAIN o} |->
        [room_id |-> destination_id,
         event |-> IF o[id - first_id].event = None THEN None
                   ELSE Some(Get(o[id - first_id].event).id),
         change |-> IF o[id - first_id].change = None THEN None
                    ELSE Some(Get(o[id - first_id].change).id),
         squeezed |-> Get(o[id - first_id].occurred_at)]]

---------------------------------------------------------------------------
(* Rooms *)

Included(t) == <<"Included", t>>

Excluded(t) == <<"Excluded", t>>

Unbounded == <<"Unbounded">>

RoomRow(id, audience, time, tags, source_room_id) ==
    [id |-> id, audience |-> audience, time |-> time, tags |-> tags,
     source_room_id |-> source_room_id]

RoomById(rs, id) == CHOOSE r \in rs : r.id = id

RoomDurationMutantAny(time) ==
    IF time[1][1] = "Included" /\ time[2][1] = "Excluded"
      THEN Some(time[2][2] - time[1][2])
    ELSE None

\* match source.time() { (Included(start), Excluded(stop)) if stop > start => ... }
RoomDuration(time) ==
    IF time[1][1] = "Included" /\ time[2][1] = "Excluded" /\ time[2][2] > time[1][2]
      THEN Some(time[2][2] - time[1][2])
    ELSE None

\* RoomInsertQuery::new(audience, time).source_room_id(id).tags(tags)
RoomInsertQuery(rs, source) ==
    RoomRow(MaxId(rs) + 1, source.audience, source.time, source.tags, Some(source.id))

\* adjust_room::invert_segments: the complement of the gaps in [0, room_duration)
RECURSIVE InvertFrom(_, _, _)
InvertFrom(gaps, i, room_duration) ==
    IF i > Len(gaps) THEN <<>>
    ELSE LET stop == gaps[i][2]
             next == IF i = Len(gaps) THEN room_duration ELSE gaps[i + 1][1]
         IN (IF stop < next THEN <<(<<stop, next>>)>> ELSE <<>>)
              \o InvertFrom(gaps, i + 1, room_duration)

invert_segments(gaps, room_duration) ==
    IF gaps = <<>> THEN <<(<<0, room_duration>>)>>
    ELSE (IF 0 < gaps[1][1] THEN <<(<<0, gaps[1][1]>>)>> ELSE <<>>)
           \o InvertFrom(gaps, 1, room_duration)

ModifiedSegmentsMutantNoDivide(inverted) == inverted

\* .map(|(start, stop)| (Included(start / NS_IN_MS), Excluded(stop / NS_IN_MS)))
ModifiedSegments(inverted) ==
    [i \in DOMAIN inverted |->
        <<inverted[i][1] \div NANOSECONDS_IN_MILLISECOND,
          inverted[i][2] \div NANOSECONDS_IN_MILLISECOND>>]

---------------------------------------------------------------------------
(* The commit task: commit_edition::call, one action per awaited step *)

NoResult == [status |-> "none", gaps |-> <<>>, state |-> Stopped, at |-> 0]

NewTask(edition_id, source_id) ==
    [pc |-> "request", edition_id |-> edition_id, source_id |-> source_id,
     room_duration |-> 0, cut_events |-> <<>>, cut_changes |-> <<>>,
     collected |-> NoResult, cut_gaps |-> <<>>, destination |-> None,
     segments |-> <<>>, error |-> "", notified |-> FALSE, authorized |-> TRUE]

\* lines 43-48
ValidateRoomTime(t) ==
    /\ task[t].pc = "start"
    /\ LET d == RoomDuration(RoomById(rooms, task[t].source_id).time)
       IN task' = [task EXCEPT ![t] =
            IF d = None THEN [@ EXCEPT !.pc = "failed", !.error = "invalid duration"]
            ELSE [@ EXCEPT !.pc = "fetch_cut_events", !.room_duration = Get(d)]]
    /\ UNCHANGED <<rooms, events, changes, clock, origin, outbox, store0, editions, request>>

\* lines 50-59
FetchCutEvents(t) ==
    /\ task[t].pc = "fetch_cut_events"
    /\ task' = [task EXCEPT ![t] = [@ EXCEPT !.pc = "fetch_cut_changes",
                   !.cut_events = EventListQuery(events, task[t].source_id, "stream")]]
    /\ UNCHANGED <<rooms, events, changes, clock, origin, outbox, store0, editions, request>>

\* lines 61-71
FetchCutChanges(t) ==
    /\ task[t].pc = "fetch_cut_changes"
    /\ task' = [task EXCEPT ![t] = [@ EXCEPT !.pc = "collect_gaps",
                   !.cut_changes = ChangeListQuery(changes, task[t].edition_id, "stream")]]
    /\ UNCHANGED <<rooms, events, changes, clock, origin, outbox, store0, editions, request>>

CollectGapsMutantContinue(t) ==
    /\ task[t].pc = "collect_gaps"
    /\ LET r == collect_gaps(task[t].cut_events, task[t].cut_changes)
       IN task' = [task EXCEPT ![t] =
                     [@ EXCEPT !.pc = "clone_room", !.collected = r, !.cut_gaps = r.gaps]]
    /\ UNCHANGED <<rooms, events, changes, clock, origin, outbox, store0, editions, request>>

\* line 73: ? returns the error, a panic unwinds the task
CollectGaps(t) ==
    /\ task[t].pc = "collect_gaps"
    /\ LET r == collect_gaps(task[t].cut_events, task[t].cut_changes)
       IN task' = [task EXCEPT ![t] =
            CASE r.status = "ok" ->
                   [@ EXCEPT !.pc = "clone_room", !.collected = r, !.cut_gaps = r.gaps]
              [] r.status = "err" ->
                   [@ EXCEPT !.pc = "failed", !.collected = r, !.error = "invalid cut"]
              [] OTHER ->
                   [@ EXCEPT !.pc = "panicked", !.collected = r]]
    /\ UNCHANGED <<rooms, events, changes, clock, origin, outbox, store0, editions, request>>

CloneRoomMutantNoTags(t) ==
    /\ task[t].pc = "clone_room"
    /\ LET destination == [RoomInsertQuery(rooms, RoomById(rooms, task[t].source_id))
                              EXCEPT !.tags = None]
       IN /\ rooms' = rooms \cup {destination}
          /\ task' = [task EXCEPT ![t] =
                        [@ EXCEPT !.pc = "clone_events", !.destination = Some(destination.id)]]
    /\ UNCHANGED <<events, changes, clock, origin, outbox, store0, editions, request>>

\* line 74
CloneRoom(t) ==
    /\ task[t].pc = "clone_room"
    /\ LET destination == RoomInsertQuery(rooms, RoomById(rooms, task[t].source_id))
       IN /\ rooms' = rooms \cup {destination}
          /\ task' = [task EXCEPT ![t] =
                        [@ EXCEPT !.pc = "clone_events", !.destination = Some(destination.id)]]
    /\ UNCHANGED <<events, changes, clock, origin, outbox, store0, editions, request>>

\* lines 76-84: the INSERT ... SELECT is one statement; it fails as a whole
\* when a row violates NOT NULL
CloneEvents(t) ==
    /\ task[t].pc = "clone_events"
    /\ LET sub == Subquery(events, changes, task[t].source_id, task[t].edition_id,
                           task[t].cut_gaps, clock)
       IN IF \E row \in sub : ~NotNullOk(row)
            THEN /\ task' = [task EXCEPT ![t] =
                       [@ EXCEPT !.pc = "failed", !.error = "Failed cloning events"]]
                 /\ UNCHANGED <<events, origin>>
          ELSE \E o \in WindowOrders(sub) :
                 /\ events' = events \cup InsertedRows(o, Get(task[t].destination), MaxId(events))
                 /\ origin' = InsertedOrigin(o, Get(task[t].destination), MaxId(events)) @@ origin
                 /\ task' = [task EXCEPT ![t] = [@ EXCEPT !.pc = "delete_cut_events"]]
    /\ UNCHANGED <<rooms, changes, clock, outbox, store0, editions, request>>

DeleteCutEventsMutantSkip(t) ==
    /\ task[t].pc = "delete_cut_events"
    /\ task' = [task EXCEPT ![t] = [@ EXCEPT !.pc = "invert_segments"]]
    /\ UNCHANGED <<rooms, events, changes, clock, origin, outbox, store0, editions, request>>

\* lines 86-96
DeleteCutEvents(t) ==
    /\ task[t].pc = "delete_cut_events"
    /\ events' = EventDeleteQuery(events, Get(task[t].destination), "stream")
    /\ task' = [task EXCEPT ![t] = [@ EXCEPT !.pc = "invert_segments"]]
    /\ UNCHANGED <<rooms, changes, clock, origin, outbox, store0, editions, request>>

\* lines 98-108
InvertSegments(t) ==
    /\ task[t].pc = "invert_segments"
    /\ task' = [task EXCEPT ![t] = [@ EXCEPT !.pc = "done",
                   !.segments = ModifiedSegments(
                                  invert_segments(task[t].cut_gaps, task[t].room_duration))]]
    /\ UNCHANGED <<rooms, events, changes, clock, origin, outbox, store0, editions, request>>

\* a storage error at one of the statements issued after the room was
\* inserted: with_context(..)? returns it
FailingSteps == {"clone_events", "delete_cut_events"}

StorageFailsMutantRollback(t) ==
    /\ task[t].pc \in FailingSteps
    /\ task' = [task EXCEPT ![t] = [@ EXCEPT !.pc = "failed", !.error = "storage"]]
    /\ rooms' = {r \in rooms : Some(r.id) # task[t].destination}
    /\ events' = {e \in events : Some(e.room_id) # task[t].destination}
    /\ UNCHANGED <<changes, clock, origin, outbox, store0, editions, request>>

StorageFails(t) ==
    /\ task[t].pc \in FailingSteps
    /\ task' = [task EXCEPT ![t] = [@ EXCEPT !.pc = "failed", !.error = "storage"]]
    /\ UNCHANGED <<rooms, events, changes, clock, origin, outbox, store0, editions, request>>

---------------------------------------------------------------------------
(* endpoint::edition::CommitHandler *)

\* the editions of the store: the requests name TheEdition or a missing one
Editions == {TheEdition}

\* no request other than the commit request of the task is in flight
NoRequest == [pc |-> "none"]

Response(status) == [type |-> "response", status |-> status]

\* AppErrorKind::status
ErrorStatus(kind) ==
    CASE kind = "access_denied" -> "FORBIDDEN"
      [] kind \in {"room_not_found", "edition_not_found"} -> "NOT_FOUND"
      [] kind \in {"invalid_state_sets", "invalid_room_time"} -> "UNPROCESSABLE_ENTITY"
      [] kind = "no_s3_client" -> "NOT_IMPLEMENTED"

\* error_response(app_error, reqp, start_timestamp)
ErrorResponse(kind) == [type |-> "response", status |-> ErrorStatus(kind), kind |-> kind]

\* EditionCommitResult and EditionCommitNotification
EditionCommitResultMutantLeak(tk) ==
    IF tk.destination # None
      THEN [status |-> "success", source_room_id |-> Some(tk.source_id),
            committed_room_id |-> tk.destination,
            modified_segments |-> Some(tk.segments), error |-> None]
    ELSE [status |-> "error", source_room_id |-> None, committed_room_id |-> None,
          modified_segments |-> None, error |-> Some("edition_commit_task_failed")]

EditionCommitResult(tk) ==
    IF tk.pc = "done"
      THEN [status |-> "success", source_room_id |-> Some(tk.source_id),
            committed_room_id |-> tk.destination,
            modified_segments |-> Some(tk.segments), error |-> None]
    ELSE [status |-> "error", source_room_id |-> None, committed_room_id |-> None,
          modified_segments |-> None, error |-> Some("edition_commit_task_failed")]

EditionCommitNotification(room, result) ==
    [type |-> "broadcast", label |-> "edition.commit",
     path |-> <<"audiences", room.audience, "events">>,
     status |-> result.status, tags |-> room.tags, result |-> result]

\* handle: find the edition with its room, authorize, spawn the commit task
\* and respond 202; the response is the first item of the returned stream
CommitHandle(t) ==
    /\ task[t].pc = "request"
    /\ IF task[t].edition_id \notin editions
         THEN /\ outbox' = Append(outbox, ErrorResponse("edition_not_found"))
              /\ task' = [task EXCEPT ![t] = [@ EXCEPT !.pc = "rejected"]]
       ELSE IF ~task[t].authorized
         THEN /\ outbox' = Append(outbox, ErrorResponse("access_denied"))
              /\ task' = [task EXCEPT ![t] = [@ EXCEPT !.pc = "rejected"]]
       ELSE /\ outbox' = Append(outbox, Response("ACCEPTED"))
            /\ task' = [task EXCEPT ![t] = [@ EXCEPT !.pc = "start"]]
    /\ UNCHANGED <<rooms, events, changes, clock, origin, store0, editions, request>>

\* the tail of the spawned future: match result, publish the notification
Notify(t) ==
    /\ task[t].pc \in {"done", "failed"}
    /\ ~task[t].notified
    /\ outbox' = Append(outbox, EditionCommitNotification(
                      RoomById(rooms, task[t].source_id), EditionCommitResult(task[t])))
    /\ task' = [task EXCEPT ![t] = [@ EXCEPT !.notified = TRUE]]
    /\ UNCHANGED <<rooms, events, changes, clock, origin, store0, editions, request>>

Next ==
    \/ \E t \in DOMAIN task : CommitHandle(t)
    \/ \E t \in DOMAIN task : StorageFails(t)
    \/ \E t \in DOMAIN task : Notify(t)
    \/ \E t \in DOMAIN task : ValidateRoomTime(t)
    \/ \E t \in DOMAIN task : FetchCutEvents(t)
    \/ \E t \in DOMAIN task : FetchCutChanges(t)
    \/ \E t \in DOMAIN task : CollectGaps(t)
    \/ \E t \in DOMAIN task : CloneRoom(t)
    \/ \E t \in DOMAIN task : CloneEvents(t)
    \/ \E t \in DOMAIN task : DeleteCutEvents(t)
    \/ \E t \in DOMAIN task : InvertSegments(t)

---------------------------------------------------------------------------
(* Inputs: the store a commit starts from *)

Times == 0..MaxTime

CreatedAts == 0..MaxCreated

Input(rs, evs, chs, now) == [rooms |-> rs, events |-> evs, changes |-> chs, clock |-> now]

GenericRoom == RoomRow(SourceRoom, "aud", <<Included(0), Excluded(MaxTime + 1)>>, None, None)

\* an hour-long room opened at wall-clock 0, as the tests' insert_room
TestRoom == RoomRow(SourceRoom, "dev.svc.example.org", <<Included(0), Excluded(36000000)>>, Some("tags"), None)

StreamEvent(id, t, cut, created_at) ==
    EventRow(id, SourceRoom, "stream", "stream", None, [cut |-> cut], t, "agent0", created_at, None)

MessageEvent(id, t, created_at, label, deleted_at) ==
    EventRow(id, SourceRoom, "message", "message", label, [message |-> "m"], t, "agent0", created_at, deleted_at)

\* tests::create_event: created_at = opened_at + occurred_at
TestEvent(id, t, kind, data) ==
    EventRow(id, SourceRoom, kind, kind, None, data, t, "test", t, None)

StreamAddition(id, t, cut) ==
    ChangeRow(id, "addition", None, Some("stream"), Some("stream"), None, Some([cut |-> cut]), Some(t), Some("agent1"))

MessageAddition(id, t) ==
    ChangeRow(id, "addition", None, Some("something"), Some("type"), Some("mylabel"), Some([message |-> "newmessage"]), Some(t), Some("agent1"))

Removal(id, event_id) ==
    ChangeRow(id, "removal", Some(event_id), None, None, None, None, None, None)

\* a modification overriding the fields named in f
Modification(id, event_id, f, t) ==
    ChangeRow(id, "modification", Some(event_id),
              IF "kind" \in f THEN Some("edited") ELSE None,
              IF "set" \in f THEN Some("set1") ELSE None,
              IF "label" \in f THEN Some("label1") ELSE None,
              IF "data" \in f THEN Some([key |-> "value"]) ELSE None,
              IF "occurred_at" \in f THEN Some(t) ELSE None,
              IF "created_by" \in f THEN Some("agent1") ELSE None)

(* The literal scenarios of the unit tests, in ticks of 10^5 ns *)

\* tests::commit_edition
CommitEditionInput ==
    Input({TestRoom},
          {TestEvent(1, 10000, "message", [message |-> "m1"]),
           TestEvent(2, 20000, "message", [message |-> "m2"]),
           TestEvent(3, 25000, "message", [message |-> "passthrough"]),
           TestEvent(4, 30000, "stream", [cut |-> "start"]),
           TestEvent(5, 40000, "message", [message |-> "m4"]),
           TestEvent(6, 50000, "stream", [cut |-> "stop"]),
           TestEvent(7, 60000, "message", [message |-> "m5"])},
          {MessageAddition(1, 30000),
           ChangeRow(2, "modification", Some(1), None, None, Some("randomlabel"), Some([key |-> "value"]), None, None),
           Removal(3, 2)},
          0)

\* tests::commit_edition_with_cut_changes
CutChangesInput ==
    Input({TestRoom},
          {TestEvent(1, 25000, "message", [message |-> "passthrough"]),
           TestEvent(2, 35000, "message", [message |-> "cutted out"]),
           TestEvent(3, 42000, "stream", [cut |-> "start"]),
           TestEvent(4, 45000, "message", [message |-> "some message"]),
           TestEvent(5, 48000, "stream", [cut |-> "stop"])},
          {StreamAddition(1, 30000, "start"), StreamAddition(2, 40000, "stop")},
          0)

\* tests::commit_edition_with_intersecting_gaps
IntersectingGapsInput ==
    Input({TestRoom},
          {TestEvent(1, 25000, "message", [message |-> "passthrough"]),
           TestEvent(2, 30000, "stream", [cut |-> "start"]),
           TestEvent(3, 35000, "message", [message |-> "cutted out"]),
           TestEvent(4, 40000, "stream", [cut |-> "stop"]),
           TestEvent(5, 50000, "message", [message |-> "passthrough2"])},
          {StreamAddition(1, 32000, "start"), StreamAddition(2, 45000, "stop")},
          0)

\* rooms whose time is not [opened_at, closed_at) with closed_at > opened_at
BadRoomInputs ==
    {Input({RoomRow(SourceRoom, "aud", time, None, None)}, {MessageEvent(1, 0, 0, None, None)}, {}, 0) :
        time \in {<<Included(0), Unbounded>>, <<Included(1), Excluded(1)>>,
                  <<Included(2), Excluded(1)>>, <<Excluded(0), Excluded(1)>>,
                  <<Included(0), Included(1)>>, <<Unbounded, Excluded(1)>>}}

\* stream changes lacking event_occurred_at or event_data, and a stream
\* event whose data has no "cut"
OddCutInputs ==
    {Input({GenericRoom}, {MessageEvent(1, 0, 0, None, None)},
           {ChangeRow(1, "modification", Some(1), Some("stream"), None, None, Some([cut |-> "start"]), None, None)}, 0),
     Input({GenericRoom}, {StreamEvent(1, 0, "start", 0)},
           {ChangeRow(1, "addition", None, Some("stream"), None, None, None, Some(1), Some("agent1"))}, 0),
     Input({GenericRoom},
           {EventRow(1, SourceRoom, "stream", "stream", None, [message |-> "m"], 0, "agent0", 0, None)}, {}, 0)}

\* factory::Event::attribute
WithAttribute(e, attribute) == [e EXCEPT !.attribute = Some(attribute)]

\* a pinned event next to a plain one, behind a cut or not, no changes
AttributeInputs ==
    {Input({GenericRoom},
           {WithAttribute(MessageEvent(1, 1, 0, Some("l0"), None), "pinned"),
            MessageEvent(2, 1, 1, None, None)} \cup cut, {}, 1) :
        cut \in {{}, {StreamEvent(3, 0, "start", 0), StreamEvent(4, 1, "stop", 0)}}}

\* cut markers of every origin: a source start, an added start and stop,
\* and a message modified into a stop
StreamModificationInput ==
    Input({GenericRoom},
          {StreamEvent(1, 0, "start", 0), MessageEvent(2, 1, 0, None, None)},
          {StreamAddition(1, 0, "start"), StreamAddition(2, 1, "stop"),
           ChangeRow(3, "modification", Some(2), Some("stream"), None, None, Some([cut |-> "stop"]), Some(1), None)},
          1)

CommonInputs ==
    {CommitEditionInput, CutChangesInput, IntersectingGapsInput, StreamModificationInput}
       \cup BadRoomInputs \cup OddCutInputs \cup AttributeInputs

(* Gap analysis: every sequence of at most MaxCuts markers, in the order    *)
(* the analyzer meets them (by time; at equal times events before changes, *)
(* events in the order of their creation)                                  *)

CutCommands == {"start", "stop", "pause"}

CutTimes == 0..(MaxTime - 1)

Markers == [src : {"Event", "Change"}, t : CutTimes, cut : CutCommands]

MarkerLeq(a, b) == a.t < b.t \/ (a.t = b.t /\ (a.src = "Event" \/ b.src = "Change"))

RECURSIVE MarkerSeqs(_)
MarkerSeqs(n) ==
    IF n = 0 THEN {<<>>}
    ELSE LET shorter == MarkerSeqs(n - 1)
         IN shorter \cup {Append(s, m) : <<s, m>> \in
              {p \in shorter \X Markers :
                 Len(p[1]) = n - 1 /\ (p[1] = <<>> \/ MarkerLeq(p[1][Len(p[1])], p[2]))}}

MarkerEvents(s) == {StreamEvent(i, s[i].t, s[i].cut, i) : i \in {j \in DOMAIN s : s[j].src = "Event"}}

MarkerChanges(s) == {StreamAddition(i, s[i].t, s[i].cut) : i \in {j \in DOMAIN s : s[j].src = "Change"}}

GapInput(s) == Input({GenericRoom}, MarkerEvents(s), MarkerChanges(s), 0)

(* Gap compression: at most two gaps cut by source markers, and one row    *)
(* probing them: an event, an addition, or an event with a modification   *)

RECURSIVE NonDecreasing(_)
NonDecreasing(n) ==
    IF n = 0 THEN {<<>>}
    ELSE {Append(s, x) : <<s, x>> \in
            {p \in NonDecreasing(n - 1) \X Times : p[1] = <<>> \/ p[1][Len(p[1])] <= p[2]}}

\* start, stop, start, stop, ... at the times ts
CutPairEvents(ts) ==
    {StreamEvent(i, ts[i], IF i % 2 = 1 THEN "start" ELSE "stop", 0) : i \in DOMAIN ts}

ShiftProbes(id) ==
    {[events |-> {MessageEvent(id, t, 0, None, None)}, changes |-> {}] : t \in Times}
    \cup {[events |-> {}, changes |-> {MessageAddition(1, t)}] : t \in Times}
    \cup {[events |-> {MessageEvent(id, p[1], 0, None, None)},
           changes |-> {Modification(1, id, {"occurred_at"}, p[2])}] : p \in Times \X Times}
    \cup {[events |-> {MessageEvent(id, t, 0, None, None)},
           changes |-> {Modification(1, id, {"data"}, 0)}] : t \in Times}

ShiftInput(ts, p) == Input({GenericRoom}, CutPairEvents(ts) \cup p.events, p.changes, 1)

(* Tie-break: at most MaxMessages events created before, at or after the   *)
(* commit time 1, at most one gap [0, t) cut by source markers, at most    *)
(* one addition                                                            *)

MessageSlots == Times \X CreatedAts

SlotLeq(a, b) == a[1] < b[1] \/ (a[1] = b[1] /\ a[2] <= b[2])

RECURSIVE SlotSeqs(_)
SlotSeqs(n) ==
    IF n = 0 THEN {<<>>}
    ELSE LET shorter == SlotSeqs(n - 1)
         IN shorter \cup {Append(s, m) : <<s, m>> \in
              {p \in shorter \X MessageSlots :
                 Len(p[1]) = n - 1 /\ (p[1] = <<>> \/ SlotLeq(p[1][Len(p[1])], p[2]))}}

SlotEvents(s, first_id) ==
    {MessageEvent(first_id + i, s[i][1], s[i][2], None, None) : i \in DOMAIN s}

BucketGaps == {<<>>} \cup {<<0, t>> : t \in Times}

BucketChanges == {{}} \cup {{MessageAddition(1, t)} : t \in Times}

BucketInput(ts, s, chs) ==
    Input({GenericRoom}, CutPairEvents(ts) \cup SlotEvents(s, Len(ts)), chs, 1)

(* The join: at most MaxJoinEvents events, live or tombstoned, and at most *)
(* two changes of any kind on them                                         *)

EditableFields == {"kind", "set", "label", "data", "occurred_at", "created_by"}

\* every set of overrides for a lone modification
AnyOverrides == SUBSET EditableFields

\* no override, one, or all of them
FewOverrides == {{}} \cup {{f} : f \in EditableFields} \cup {EditableFields}

ChangeTemplates(n, overrides) ==
    {[kind |-> "addition", target |-> 0, fields |-> {"kind"}],
     [kind |-> "addition", target |-> 0, fields |-> {}]}
    \cup [kind : {"modification"}, target : 1..n, fields : overrides]
    \cup [kind : {"removal"}, target : 1..n, fields : {{}}]

TemplateChange(id, c) ==
    CASE c.kind = "addition" /\ c.fields # {} -> MessageAddition(id, 1)
      [] c.kind = "addition" ->
            ChangeRow(id, "addition", None, None, None, None, Some([message |-> "newmessage"]), Some(1), Some("agent1"))
      [] c.kind = "modification" -> Modification(id, c.target, c.fields, 0)
      [] OTHER -> Removal(id, c.target)

JoinEvents(n, dead) ==
    {MessageEvent(i, i, 0, Some("l0"), IF i \in dead THEN Some(0) ELSE None) : i \in 1..n}

(* Segments: at most MaxGaps cuts whose bounds lie one tick after or one   *)
(* tick before a whole millisecond, in a room that ends on a whole         *)
(* millisecond or one tick before it                                       *)

EdgeTimes ==
    {k * NANOSECONDS_IN_MILLISECOND + d : k \in 0..MaxGaps, d \in {1, NANOSECONDS_IN_MILLISECOND - 1}}

RECURSIVE Increasing(_)
Increasing(n) ==
    IF n = 0 THEN {<<>>}
    ELSE {Append(s, x) : <<s, x>> \in
            {p \in Increasing(n - 1) \X EdgeTimes : p[1] = <<>> \/ p[1][Len(p[1])] < p[2]}}

SegmentRooms ==
    {RoomRow(SourceRoom, "aud", <<Included(0), Excluded((MaxGaps + 1) * NANOSECONDS_IN_MILLISECOND - d)>>, None, None) :
        d \in {0, 1}}

SegmentInput(room, ts) == Input({room}, CutPairEvents(ts), {}, 0)

Start(inp) ==
    /\ rooms = inp.rooms
    /\ events = inp.events
    /\ changes = inp.changes
    /\ clock = inp.clock
    /\ task = [t \in {1} |-> NewTask(TheEdition, SourceRoom)]
    /\ origin = <<>>
    /\ outbox = <<>>
    /\ store0 = [rooms |-> inp.rooms, events |-> inp.events, editions |-> Editions,
                 changes |-> inp.changes]
    /\ editions = Editions
    /\ request = NoRequest

\* a request that names an edition the store does not hold, or one the
\* authorization refuses
StartMissing(inp) ==
    /\ rooms = inp.rooms
    /\ events = inp.events
    /\ changes = inp.changes
    /\ clock = inp.clock
    /\ task \in {[t \in {1} |-> NewTask(TheEdition + 1, SourceRoom)],
                 [t \in {1} |-> [NewTask(TheEdition, SourceRoom) EXCEPT !.authorized = FALSE]]}
    /\ origin = <<>>
    /\ outbox = <<>>
    /\ store0 = [rooms |-> inp.rooms, events |-> inp.events, editions |-> Editions,
                 changes |-> inp.changes]
    /\ editions = Editions
    /\ request = NoRequest

InitCommon ==
    \/ \E inp \in CommonInputs : Start(inp)
    \/ StartMissing(CommitEditionInput)

InitMarkers == \E s \in MarkerSeqs(MaxCuts) : Start(GapInput(s))

InitShift ==
    \E ts \in NonDecreasing(0) \cup NonDecreasing(2) \cup NonDecreasing(4) :
        \E p \in ShiftProbes(Len(ts) + 1) : Start(ShiftInput(ts, p))

InitBucket ==
    \E ts \in BucketGaps : \E s \in SlotSeqs(MaxMessages) : \E chs \in BucketChanges :
        Start(BucketInput(ts, s, chs))

InitJoin ==
    \E n \in 0..MaxJoinEvents : \E dead \in SUBSET (1..n) :
        \/ Start(Input({GenericRoom}, JoinEvents(n, dead), {}, 1))
        \/ \E c \in ChangeTemplates(n, AnyOverrides) :
              Start(Input({GenericRoom}, JoinEvents(n, dead), {TemplateChange(1, c)}, 1))
        \/ \E c \in ChangeTemplates(n, FewOverrides) :
              \E d \in ChangeTemplates(n, FewOverrides) \ {c} :
                Start(Input({GenericRoom}, JoinEvents(n, dead),
                            {TemplateChange(1, c), TemplateChange(2, d)}, 1))

InitSegments ==
    \E n \in 0..MaxGaps : \E ts \in Increasing(2 * n) : \E room \in SegmentRooms :
        Start(SegmentInput(room, ts))

InitGaps == InitCommon \/ InitMarkers \/ InitSegments

SpecGaps == InitGaps /\ [][Next]_vars

Init == InitCommon \/ InitShift \/ InitBucket \/ InitJoin

Spec == Init /\ [][Next]_vars

---------------------------------------------------------------------------
(* The set state of the event log: db::event::InsertQuery and SetStateQuery *)

\* Insert: original_occurred_at is set equal to occurred_at; created_at is
\* the position in the order of insertion
InsertedEvent(id, room_id, set, label, attribute, occurred_at) ==
    [id |-> id, room_id |-> room_id, kind |-> set, set |-> set, label |-> label,
     attribute |-> attribute, data |-> [text |-> "hello"], occurred_at |-> occurred_at,
     original_occurred_at |-> occurred_at, created_by |-> "agent0", created_at |-> id,
     deleted_at |-> None]

\* SetStateQuery::new(room_id, set, original_occurred_at, limit)
SetStateQuery(room_id, set, original_occurred_at, limit) ==
    [room_id |-> room_id, set |-> set, original_occurred_at |-> original_occurred_at,
     limit |-> limit, attribute |-> None, occurred_at |-> None]

\* the later of two versions: original_occurred_at, then created_at, then id
VersionBefore(a, b) ==
    \/ a.original_occurred_at < b.original_occurred_at
    \/ a.original_occurred_at = b.original_occurred_at /\ a.created_at < b.created_at
    \/ /\ a.original_occurred_at = b.original_occurred_at
       /\ a.created_at = b.created_at
       /\ a.id < b.id

SetStateRowsMutantNoCursor(evs, q) ==
    {e \in evs : /\ e.room_id = q.room_id
                 /\ e.set = q.set
                 /\ e.deleted_at = None
                 /\ (q.occurred_at # None => e.occurred_at < Get(q.occurred_at))}

\* the rows of the set below the cursors
SetStateRows(evs, q) ==
    {e \in evs : /\ e.room_id = q.room_id
                 /\ e.set = q.set
                 /\ e.deleted_at = None
                 /\ e.original_occurred_at < q.original_occurred_at
                 /\ (q.occurred_at # None => e.occurred_at < Get(q.occurred_at))}

LatestVersionsMutantDeduplicateAll(rows) ==
    {e \in rows : \A o \in rows : (o.label = e.label /\ o # e) => VersionBefore(o, e)}

\* the latest version of every label; rows without a label are all kept
LatestVersions(rows) ==
    {e \in rows : \/ e.label = None
                  \/ \A o \in rows : (o.label = e.label /\ o # e) => VersionBefore(o, e)}

AttributeMatches(e, attribute) == attribute = None \/ e.attribute = attribute

SetStateMutantFilterFirst(evs, q) ==
    LatestVersions({e \in SetStateRows(evs, q) :
                       /\ e.attribute # Some("deleted")
                       /\ AttributeMatches(e, q.attribute)})

\* the state of the set: the latest versions that are no tombstones and
\* carry the requested attribute
SetState(evs, q) ==
    {e \in LatestVersions(SetStateRows(evs, q)) :
        /\ e.attribute # Some("deleted")
        /\ AttributeMatches(e, q.attribute)}

RECURSIVE SortVersionsDesc(_)
SortVersionsDesc(S) ==
    IF S = {} THEN <<>>
    ELSE LET m == CHOOSE x \in S : \A y \in S \ {x} : VersionBefore(y, x)
         IN <<m>> \o SortVersionsDesc(S \ {m})

Take(s, n) == IF n <= 0 THEN <<>> ELSE SubSeq(s, 1, Min2(n, Len(s)))

\* query.execute: descending original_occurred_at, LIMIT limit
SetStateExecute(evs, q) == Take(SortVersionsDesc(SetState(evs, q)), q.limit)

\* query.total_count
SetStateTotalCount(evs, q) == Cardinality(SetState(evs, q))

---------------------------------------------------------------------------
(* endpoint::state::ReadHandler *)

MAX_SETS == 10

MAX_LIMIT_PER_SET == 100

ReadRequest(room_id, sets, attribute, occurred_at, original_occurred_at, limit, authorized) ==
    [pc |-> "received", method |-> "state.read", room_id |-> room_id, sets |-> sets,
     attribute |-> attribute, occurred_at |-> occurred_at,
     original_occurred_at |-> original_occurred_at, limit |-> limit,
     authorized |-> authorized, authz_calls |-> 0]

\* helpers::build_response(status, payload, ..)
BuildResponse(status, payload) == [type |-> "response", status |-> status, payload |-> payload]

\* JsonMap::insert: a later value replaces the value of an equal key
JsonInsert(m, k, v) == [x \in DOMAIN m \cup {k} |-> IF x = k THEN v ELSE m[x]]

JsonBool(b) == [tag |-> "bool", value |-> b]

\* match serialized_set_state.as_array().and_then(|a| a.first())
SetValue(set_state) ==
    IF set_state # <<>> /\ set_state[1].label = None
      THEN [tag |-> "object", event |-> set_state[1]]
    ELSE [tag |-> "array", events |-> set_state]

\* for set in payload.sets.iter() { .. }
RECURSIVE ReadSets(_, _, _, _, _, _)
ReadSets(evs, req, original_occurred_at, limit, state, i) ==
    IF i > Len(req.sets) THEN state
    ELSE LET set == req.sets[i]
             query == [SetStateQuery(req.room_id, set, original_occurred_at, limit)
                         EXCEPT !.attribute = req.attribute,
                                !.occurred_at = req.occurred_at]
             flagged == IF Len(req.sets) = 1
                          THEN JsonInsert(state, "has_next",
                                          JsonBool(SetStateTotalCount(evs, query) > limit))
                        ELSE state
             set_state == SetStateExecute(evs, query)
         IN ReadSets(evs, req, original_occurred_at, limit,
                     JsonInsert(flagged, set, SetValue(set_state)), i + 1)

\* std::cmp::min(payload.limit.unwrap_or_else(|| MAX_LIMIT_PER_SET), MAX_LIMIT_PER_SET)
ChooseLimit(limit) == Min2(IF limit # None THEN Get(limit) ELSE MAX_LIMIT_PER_SET, MAX_LIMIT_PER_SET)

HasRoom(rs, id) == \E r \in rs : r.id = id

\* the rest of handle once the request is authorized: the default cursor,
\* the loop over the sets, the response
ReadState(rs, evs, req) ==
    LET room == RoomById(rs, req.room_id)
        limit == ChooseLimit(req.limit)
    IN IF req.original_occurred_at # None
         THEN BuildResponse("OK", ReadSets(evs, req, Get(req.original_occurred_at),
                                           limit, <<>>, 1))
       ELSE IF room.time[1][1] = "Included" /\ room.time[2][1] = "Excluded"
         THEN BuildResponse("OK", ReadSets(evs, req,
                                           room.time[2][2] - room.time[1][2] + 1,
                                           limit, <<>>, 1))
       ELSE ErrorResponse("invalid_room_time")

ReadHandleMutantAuthzFirst(rs, evs, req) ==
    IF ~req.authorized
      THEN [response |-> ErrorResponse("access_denied"), authz_calls |-> 1]
    ELSE IF Len(req.sets) = 0 \/ Len(req.sets) > MAX_SETS
      THEN [response |-> ErrorResponse("invalid_state_sets"), authz_calls |-> 1]
    ELSE IF ~HasRoom(rs, req.room_id)
      THEN [response |-> ErrorResponse("room_not_found"), authz_calls |-> 1]
    ELSE [response |-> ReadState(rs, evs, req), authz_calls |-> 1]

\* handle: validation of the sets, room lookup, authorization, then the state
ReadHandle(rs, evs, req) ==
    IF Len(req.sets) = 0 \/ Len(req.sets) > MAX_SETS
      THEN [response |-> ErrorResponse("invalid_state_sets"), authz_calls |-> 0]
    ELSE IF ~HasRoom(rs, req.room_id)
      THEN [response |-> ErrorResponse("room_not_found"), authz_calls |-> 0]
    ELSE IF ~req.authorized
      THEN [response |-> ErrorResponse("access_denied"), authz_calls |-> 1]
    ELSE [response |-> ReadState(rs, evs, req), authz_calls |-> 1]

StateRead ==
    /\ request.pc = "received"
    /\ request.method = "state.read"
    /\ LET handled == ReadHandle(rooms, events, request)
       IN /\ outbox' = Append(outbox, handled.response)
          /\ request' = [request EXCEPT !.pc = "responded",
                                        !.authz_calls = @ + handled.authz_calls]
    /\ UNCHANGED <<rooms, events, changes, task, clock, origin, store0, editions>>

\* the events a response holds for a set
PageOf(response, set) ==
    IF response.payload[set].tag = "object" THEN <<response.payload[set].event>>
    ELSE IF response.payload[set].tag = "array" THEN response.payload[set].events
    ELSE <<>>

\* the client asks for the next page: the same request with the last
\* returned event's original_occurred_at as the cursor
NextPage ==
    /\ request.pc = "responded"
    /\ request.method = "state.read"
    /\ Len(request.sets) = 1
    /\ LET response == outbox[Len(outbox)]
           page == PageOf(response, request.sets[1])
       IN /\ response.status = "OK"
          /\ response.payload["has_next"] = JsonBool(TRUE)
          /\ page # <<>>
          /\ request' = [request EXCEPT
                           !.pc = "received",
                           !.original_occurred_at =
                               Some(page[Len(page)].original_occurred_at)]
    /\ UNCHANGED <<rooms, events, changes, task, clock, origin, outbox, store0, editions>>

NextState == StateRead \/ NextPage

---------------------------------------------------------------------------
(* Inputs of state.read: a room, its log and a request *)

MaxStateTime == 2

MaxPagedEvents == 3

MaxFilteredEvents == 2

StateTimes == 0..MaxStateTime

\* a room open for MaxStateTime + 1 units, and a room without a closing time
StateRoom == RoomRow(SourceRoom, "aud", <<Included(0), Excluded(MaxStateTime + 1)>>, None, None)

OpenEndedRoom == RoomRow(SourceRoom, "aud", <<Included(0), Unbounded>>, None, None)

\* a log of one set: the event of slot i is the i-th inserted
Slot(label, attribute, occurred_at) ==
    [label |-> label, attribute |-> attribute, occurred_at |-> occurred_at]

SlotLog(set, s) ==
    {InsertedEvent(i, SourceRoom, set, s[i].label, s[i].attribute, s[i].occurred_at) :
        i \in DOMAIN s}

Logs(set, slots, n) == UNION {{SlotLog(set, s) : s \in [1..k -> slots]} : k \in 0..n}

\* tests::read_state_multiple_sets: a labelled message and a layout event
MultipleSetsLog ==
    {InsertedEvent(1, SourceRoom, "messages", Some("message-1"), None, 1),
     InsertedEvent(2, SourceRoom, "layout", None, None, 2)}

\* a set named as the pagination flag
FlagSetLog ==
    {InsertedEvent(1, SourceRoom, "has_next", Some("message-1"), None, 1),
     InsertedEvent(2, SourceRoom, "has_next", Some("message-2"), None, 2)}

ElevenSets == [i \in 1..(MAX_SETS + 1) |-> "messages"]

StartRead(rs, evs, req) ==
    /\ rooms = rs
    /\ events = evs
    /\ changes = {}
    /\ clock = 0
    /\ task = <<>>
    /\ origin = <<>>
    /\ outbox = <<>>
    /\ store0 = [rooms |-> rs, events |-> evs, editions |-> {}]
    /\ editions = {}
    /\ request = req

\* requests of every shape against a few logs
InitStateChecks ==
    \E rs \in {{StateRoom}, {OpenEndedRoom}} :
    \E evs \in {MultipleSetsLog, FlagSetLog} :
    \E room_id \in {SourceRoom, SourceRoom + 1} :
    \E sets \in {<<>>, <<"messages">>, <<"layout">>, <<"has_next">>,
                 <<"messages", "layout">>, ElevenSets} :
    \E original_occurred_at \in {None, Some(2)} :
    \E limit \in {None, Some(0), Some(1), Some(MAX_LIMIT_PER_SET + 1)} :
    \E authorized \in BOOLEAN :
        StartRead(rs, evs, ReadRequest(room_id, sets, None, None, original_occurred_at,
                                       limit, authorized))

\* tests::read_state_collection: pages of one set, read from the default cursor
InitStatePaging ==
    \E evs \in Logs("messages",
                    {Slot(label, None, t) :
                        label \in {None, Some("message-1"), Some("message-2")},
                        t \in StateTimes},
                    MaxPagedEvents) :
    \E limit \in {None, Some(1), Some(2)} :
        StartRead({StateRoom}, evs,
                  ReadRequest(SourceRoom, <<"messages">>, None, None, None, limit, TRUE))

\* tests::read_state_pinned_messages: versions with attributes, read with
\* an attribute filter or without, at the default cursor or a given one
InitStateFilter ==
    \E evs \in Logs("messages",
                    {Slot(label, attribute, t) :
                        label \in {Some("message-1"), Some("message-2")},
                        attribute \in {None, Some("pinned"), Some("deleted")},
                        t \in StateTimes},
                    MaxFilteredEvents) :
    \E attribute \in {None, Some("pinned")} :
    \E occurred_at \in {None, Some(MaxStateTime)} :
    \E original_occurred_at \in {None} \cup {Some(t) : t \in StateTimes \ {0}} :
        StartRead({StateRoom}, evs,
                  ReadRequest(SourceRoom, <<"messages">>, attribute, occurred_at,
                              original_occurred_at, None, TRUE))

InitState == InitStateChecks \/ InitStatePaging \/ InitStateFilter

SpecState == InitState /\ [][NextState]_vars

---------------------------------------------------------------------------
(* operations::vacuum and db::event::VacuumQuery *)

\* config::VacuumConfig
VacuumConfig(max_history_size, max_history_lifetime, max_deleted_lifetime) ==
    [max_history_size |-> max_history_size,
     max_history_lifetime |-> max_history_lifetime,
     max_deleted_lifetime |-> max_deleted_lifetime]

\* the versions of the label of e: the rows of its room, set and label
VersionsOf(evs, e) ==
    {o \in evs : o.room_id = e.room_id /\ o.set = e.set /\ o.label = e.label}

\* the latest version of a group, in the canonical order of the log
LatestOf(versions) == CHOOSE x \in versions : \A y \in versions \ {x} : EventBefore(y, x)

\* 1 for the latest version, 2 for the one before it, ..
ReverseOrdinal(evs, e) == 1 + Cardinality({o \in VersionsOf(evs, e) : EventBefore(e, o)})

ExpiredTombstoneMutantAnyVersion(evs, e, config, now) ==
    \E o \in VersionsOf(evs, e) :
        /\ o.attribute = Some("deleted")
        /\ now - o.created_at > config.max_deleted_lifetime

\* the label was deleted more than max_deleted_lifetime ago and not restored
ExpiredTombstone(evs, e, config, now) ==
    LET latest == LatestOf(VersionsOf(evs, e))
    IN /\ latest.attribute = Some("deleted")
       /\ now - latest.created_at > config.max_deleted_lifetime

SurplusVersionMutantBoth(evs, e, config, now) ==
    /\ e # LatestOf(VersionsOf(evs, e))
    /\ now - e.created_at > config.max_history_lifetime
    /\ ReverseOrdinal(evs, e) > config.max_history_size

\* a version that is not the latest and is too old or beyond the kept history
SurplusVersion(evs, e, config, now) ==
    /\ e # LatestOf(VersionsOf(evs, e))
    /\ \/ now - e.created_at > config.max_history_lifetime
       \/ ReverseOrdinal(evs, e) > config.max_history_size

VacuumQueryMutantAllRooms(evs, rs, config, now) ==
    {e \in evs :
        ~(/\ e.label # None
          /\ \/ ExpiredTombstone(evs, e, config, now)
             \/ SurplusVersion(evs, e, config, now))}

VacuumQueryMutantTombstoneOnly(evs, rs, config, now) ==
    {e \in evs :
        ~(/\ ~RoomById(rs, e.room_id).preserve_history
          /\ e.label # None
          /\ \/ ExpiredTombstone(evs, e, config, now) /\ e.attribute = Some("deleted")
             \/ SurplusVersion(evs, e, config, now))}

VacuumQueryMutantByAge(evs, rs, config, now) ==
    {e \in evs :
        ~(/\ ~RoomById(rs, e.room_id).preserve_history
          /\ e.label # None
          /\ \/ ExpiredTombstone(evs, e, config, now)
             \/ now - e.created_at > config.max_history_lifetime
             \/ ReverseOrdinal(evs, e) > config.max_history_size)}

\* VacuumQuery::new(max_history_size, max_history_lifetime,
\* max_deleted_lifetime).execute: the rows that stay
VacuumQuery(evs, rs, config, now) ==
    {e \in evs :
        ~(/\ ~RoomById(rs, e.room_id).preserve_history
          /\ e.label # None
          /\ \/ ExpiredTombstone(evs, e, config, now)
             \/ SurplusVersion(evs, e, config, now))}

MaxTicks == 1

\* vacuum::call: one statement on a connection of the pool
Vacuum ==
    /\ request.pc = "scheduled"
    /\ request.method = "system.vacuum"
    /\ events' = VacuumQuery(events, rooms, request.config, clock)
    /\ request' = [request EXCEPT !.runs = Min2(@ + 1, 2), !.ran_at = clock]
    /\ UNCHANGED <<rooms, changes, task, clock, origin, outbox, store0, editions>>

\* time passes between two runs of the periodic job
Tick ==
    /\ request.pc = "scheduled"
    /\ request.method = "system.vacuum"
    /\ clock < request.started_at + MaxTicks
    /\ clock' = clock + 1
    /\ UNCHANGED <<rooms, events, changes, task, origin, outbox, store0, editions, request>>

NextVacuum == Vacuum \/ Tick

---------------------------------------------------------------------------
(* Inputs of the vacuum: rooms, logs with ages, a configuration *)

MaxAge == 2

MaxVacuumEvents == 2

MaxLifetime == 1

\* tests::insert_room(conn, preserve_history)
VacuumRoom(id, preserve_history) ==
    [id |-> id, audience |-> "aud", time |-> <<Included(0), Excluded(60)>>,
     tags |-> None, source_room_id |-> None, preserve_history |-> preserve_history]

\* tests::build_event_factory: created_at = now - age, occurred_at alike
VacuumEvent(id, room_id, label, attribute, age, now) ==
    [id |-> id, room_id |-> room_id, kind |-> "draw", set |-> "page1", label |-> label,
     attribute |-> attribute, data |-> <<>>, occurred_at |-> now - age,
     original_occurred_at |-> now - age, created_by |-> "agent0",
     created_at |-> now - age, deleted_at |-> None]

StartVacuum(rs, evs, config, now) ==
    /\ rooms = rs
    /\ events = evs
    /\ changes = {}
    /\ clock = now
    /\ task = <<>>
    /\ origin = <<>>
    /\ outbox = <<>>
    /\ store0 = [rooms |-> rs, events |-> evs, editions |-> {}]
    /\ editions = {}
    /\ request = [pc |-> "scheduled", method |-> "system.vacuum", config |-> config,
                  runs |-> 0, ran_at |-> now, started_at |-> now]

\* tests::vacuum_history, in minutes, at minute 100: rooms 1 and 2 are
\* pruned, room 3 is preserved
VacuumHistoryRooms == {VacuumRoom(1, FALSE), VacuumRoom(2, FALSE), VacuumRoom(3, TRUE)}

VacuumHistoryEvents(label) ==
    {VacuumEvent(1, 1, label, None, 70, 100),
     VacuumEvent(2, 1, label, None, 30, 100),
     VacuumEvent(3, 2, label, None, 3, 100),
     VacuumEvent(4, 2, label, None, 2, 100),
     VacuumEvent(5, 2, label, None, 1, 100),
     VacuumEvent(6, 3, label, None, 90, 100),
     VacuumEvent(7, 3, label, None, 3, 100),
     VacuumEvent(8, 3, label, None, 2, 100),
     VacuumEvent(9, 3, label, None, 1, 100)}

\* tests::vacuum_deleted: rooms 1 to 3 are pruned, room 4 is preserved
VacuumDeletedRooms ==
    {VacuumRoom(1, FALSE), VacuumRoom(2, FALSE), VacuumRoom(3, FALSE), VacuumRoom(4, TRUE)}

VacuumDeletedEvents ==
    {VacuumEvent(1, 1, Some("drawing1"), None, 75, 100),
     VacuumEvent(2, 1, Some("drawing1"), Some("deleted"), 70, 100),
     VacuumEvent(3, 2, Some("drawing1"), None, 55, 100),
     VacuumEvent(4, 2, Some("drawing1"), Some("deleted"), 50, 100),
     VacuumEvent(5, 3, Some("drawing1"), None, 100, 100),
     VacuumEvent(6, 3, Some("drawing1"), None, 90, 100),
     VacuumEvent(7, 3, Some("drawing1"), None, 10, 100),
     VacuumEvent(8, 4, Some("drawing1"), None, 90, 100),
     VacuumEvent(9, 4, Some("drawing1"), Some("deleted"), 80, 100)}

\* the restoration the third room of tests::vacuum_deleted is named after:
\* the version at -90 minutes is a tombstone, the one at -10 restores the label
VacuumRestoredEvents ==
    {VacuumEvent(1, 3, Some("drawing1"), None, 100, 100),
     VacuumEvent(2, 3, Some("drawing1"), Some("deleted"), 90, 100),
     VacuumEvent(3, 3, Some("drawing1"), None, 10, 100)}

\* the two tests, the events of the first one without their label, and the
\* restored label
InitVacuumTests ==
    \/ StartVacuum(VacuumDeletedRooms, VacuumRestoredEvents, VacuumConfig(100, 16667, 60), 100)
    \/ \E label \in {Some("drawing1"), None} :
          StartVacuum(VacuumHistoryRooms, VacuumHistoryEvents(label),
                      VacuumConfig(2, 60, 16667), 100)
    \/ StartVacuum(VacuumDeletedRooms, VacuumDeletedEvents, VacuumConfig(100, 16667, 60), 100)

\* versions of one label in a pruned room and in a preserved one, live or
\* tombstones, of every age, under every small configuration
VacuumSlots ==
    {[room_id |-> r, attribute |-> a, age |-> g] :
        r \in {1, 2}, a \in {None, Some("deleted")}, g \in 0..MaxAge}

InitVacuumLogs ==
    \E k \in 0..MaxVacuumEvents : \E s \in [1..k -> VacuumSlots] :
    \E size \in 1..2 : \E history \in 0..MaxLifetime : \E deleted \in 0..MaxLifetime :
        StartVacuum({VacuumRoom(1, FALSE), VacuumRoom(2, TRUE)},
                    {VacuumEvent(i, s[i].room_id, Some("drawing1"), s[i].attribute,
                                 s[i].age, MaxAge) : i \in DOMAIN s},
                    VacuumConfig(size, history, deleted), MaxAge)

InitVacuum == InitVacuumTests \/ InitVacuumLogs

SpecVacuum == InitVacuum /\ [][NextVacuum]_vars

---------------------------------------------------------------------------
(* endpoint::edition Create, List, Delete and endpoint::room::EventsDumpHandler *)

\* a request to one of the handlers: the room or the edition it names, the
\* answer the authorization will give, whether the context holds an S3 client
EndpointRequest(method, room_id, id, authorized, s3_client) ==
    [pc |-> "received", method |-> method, room_id |-> room_id, id |-> id,
     authorized |-> authorized, s3_client |-> s3_client, authz_calls |-> 0]

\* helpers::build_notification(label, path, payload, ..)
BuildNotification(label, path, payload) ==
    [type |-> "broadcast", label |-> label, path |-> path, payload |-> payload]

\* handle_envelope: the stream the handler returned, or the error response
\* made of its error, is published; the request is left at pc
Publish(messages, authz_calls, pc) ==
    /\ outbox' = outbox \o messages
    /\ request' = [request EXCEPT !.pc = pc, !.authz_calls = @ + authz_calls]

\* db::edition::InsertQuery: the new edition, of the room SourceRoom as
\* every edition of the store
InsertEdition(eds) == CHOOSE n \in 1..(Cardinality(eds) + 1) : n \notin eds

\* CreateHandler::handle
EditionCreate ==
    /\ request.pc = "received"
    /\ request.method = "edition.create"
    /\ IF ~HasRoom(rooms, request.room_id)
         THEN /\ Publish(<<ErrorResponse("room_not_found")>>, 0, "responded")
              /\ UNCHANGED editions
       ELSE IF ~request.authorized
         THEN /\ Publish(<<ErrorResponse("access_denied")>>, 1, "responded")
              /\ UNCHANGED editions
       ELSE LET edition == InsertEdition(editions)
            IN /\ editions' = editions \cup {edition}
               /\ Publish(<<BuildResponse("CREATED", edition),
                            BuildNotification("edition.create",
                                              <<"rooms", request.room_id, "editions">>,
                                              edition)>>,
                          1, "responded")
    /\ UNCHANGED <<rooms, events, changes, task, clock, origin, store0>>

\* ListHandler::handle
EditionList ==
    /\ request.pc = "received"
    /\ request.method = "edition.list"
    /\ IF ~HasRoom(rooms, request.room_id)
         THEN Publish(<<ErrorResponse("room_not_found")>>, 0, "responded")
       ELSE IF ~request.authorized
         THEN Publish(<<ErrorResponse("access_denied")>>, 1, "responded")
       ELSE Publish(<<BuildResponse("OK", editions)>>, 1, "responded")
    /\ UNCHANGED <<rooms, events, changes, task, clock, origin, store0, editions>>

EditionDeleteMutantDeleteFirst ==
    /\ request.pc = "received"
    /\ request.method = "edition.delete"
    /\ IF request.id \notin editions
         THEN /\ Publish(<<ErrorResponse("edition_not_found")>>, 0, "responded")
              /\ UNCHANGED editions
       ELSE /\ editions' = editions \ {request.id}
            /\ IF ~request.authorized
                 THEN Publish(<<ErrorResponse("access_denied")>>, 1, "responded")
               ELSE Publish(<<BuildResponse("OK", request.id)>>, 1, "responded")
    /\ UNCHANGED <<rooms, events, changes, task, clock, origin, store0>>

\* DeleteHandler::handle
EditionDelete ==
    /\ request.pc = "received"
    /\ request.method = "edition.delete"
    /\ IF request.id \notin editions
         THEN /\ Publish(<<ErrorResponse("edition_not_found")>>, 0, "responded")
              /\ UNCHANGED editions
       ELSE IF ~request.authorized
         THEN /\ Publish(<<ErrorResponse("access_denied")>>, 1, "responded")
              /\ UNCHANGED editions
       ELSE /\ editions' = editions \ {request.id}
            /\ Publish(<<BuildResponse("OK", request.id)>>, 1, "responded")
    /\ UNCHANGED <<rooms, events, changes, task, clock, origin, store0>>

\* EventsDumpHandler::handle: the dump is spawned after the authorization
\* and the lookup of the S3 client; the response is the first item of the
\* returned stream
EventsDump ==
    /\ request.pc = "received"
    /\ request.method = "room.dump_events"
    /\ IF ~HasRoom(rooms, request.room_id)
         THEN Publish(<<ErrorResponse("room_not_found")>>, 0, "responded")
       ELSE IF ~request.authorized
         THEN Publish(<<ErrorResponse("access_denied")>>, 1, "responded")
       ELSE IF ~request.s3_client
         THEN Publish(<<ErrorResponse("no_s3_client")>>, 1, "responded")
       ELSE Publish(<<BuildResponse("ACCEPTED", <<>>)>>, 1, "dumping")
    /\ UNCHANGED <<rooms, events, changes, task, clock, origin, store0, editions>>

\* EventsDumpNotification: the result of dump_events_to_s3, which S3 decides
EventsDumpNotification(room, status) ==
    [type |-> "broadcast", label |-> "room.dump_events",
     path |-> <<"audiences", room.audience, "events">>,
     status |-> status, tags |-> room.tags]

\* the spawned future: dump, match result, publish the notification
EventsDumpNotify ==
    /\ request.pc = "dumping"
    /\ \E status \in {"success", "error"} :
          outbox' = Append(outbox, EventsDumpNotification(
                            RoomById(rooms, request.room_id), status))
    /\ request' = [request EXCEPT !.pc = "responded"]
    /\ UNCHANGED <<rooms, events, changes, task, clock, origin, store0, editions>>

NextEndpoints ==
    \/ Next
    \/ StateRead
    \/ EditionCreate
    \/ EditionList
    \/ EditionDelete
    \/ EventsDump
    \/ EventsDumpNotify

---------------------------------------------------------------------------
(* Inputs of the endpoints: one request against a store *)

StartRequest(rs, eds, req) ==
    /\ rooms = rs
    /\ events = {}
    /\ changes = {}
    /\ clock = 0
    /\ task = <<>>
    /\ origin = <<>>
    /\ outbox = <<>>
    /\ store0 = [rooms |-> rs, events |-> {}, editions |-> eds]
    /\ editions = eds
    /\ request = req

\* the tests of edition.rs and dump_events.rs: the room and the edition
\* exist or not, the authorization allows or not, the context has an S3
\* client or not
InitEndpointRequests ==
    \E method \in {"edition.create", "edition.list", "edition.delete", "room.dump_events"} :
    \E room_id \in {SourceRoom, SourceRoom + 1} :
    \E id \in {TheEdition, TheEdition + 1} :
    \E authorized \in BOOLEAN :
    \E s3_client \in BOOLEAN :
    \E eds \in {{}, Editions} :
        StartRequest({TestRoom}, eds,
                     EndpointRequest(method, room_id, id, authorized, s3_client))

InitEndpoints == InitEndpointRequests \/ InitStateChecks \/ InitCommon

SpecEndpoints == InitEndpoints /\ [][NextEndpoints]_vars

---------------------------------------------------------------------------
(* serde::ts_seconds_bound_tuple *)

\* DateTime::timestamp: the whole seconds of an instant; instants are
\* counted in half seconds
Timestamp(dt) == dt \div 2

\* DateTime::from_utc(NaiveDateTime::from_timestamp(val, 0), Utc)
FromTimestamp(val) == 2 * val

\* serialize, match lt
SerializeLeft(lt) ==
    CASE lt[1] = "Included" -> Some(Timestamp(lt[2]))
      [] lt[1] = "Excluded" -> Some(Timestamp(lt[2]) + 1)
      [] OTHER -> None

\* serialize, match rt
SerializeRight(rt) ==
    CASE rt[1] = "Included" -> Some(Timestamp(rt[2]) - 1)
      [] rt[1] = "Excluded" -> Some(Timestamp(rt[2]))
      [] OTHER -> None

\* ts_seconds_bound_tuple::serialize: a tuple of two elements, null for None
SerializeBoundTuple(value) == <<SerializeLeft(value[1]), SerializeRight(value[2])>>

\* TupleSecondsTimestampVisitor::visit_seq
VisitSeq(tuple) ==
    <<IF tuple[1] = None THEN Unbounded ELSE Included(FromTimestamp(Get(tuple[1]))),
      IF tuple[2] = None THEN Unbounded ELSE Excluded(FromTimestamp(Get(tuple[2])))>>

\* a room time goes out in a response
Serialize ==
    /\ request.pc = "value"
    /\ request.method = "serde"
    /\ request' = [request EXCEPT !.pc = "serialized",
                                  !.tuple = SerializeBoundTuple(request.value)]
    /\ UNCHANGED <<rooms, events, changes, task, clock, origin, outbox, store0, editions>>

\* and is read back
Deserialize ==
    /\ request.pc = "serialized"
    /\ request.method = "serde"
    /\ request' = [request EXCEPT !.pc = "deserialized", !.back = VisitSeq(request.tuple)]
    /\ UNCHANGED <<rooms, events, changes, task, clock, origin, outbox, store0, editions>>

NextSerde == Serialize \/ Deserialize

\* instants up to MaxBoundTime half seconds
MaxBoundTime == 5

BoundValues ==
    {Unbounded} \cup {Included(t) : t \in 0..MaxBoundTime}
                \cup {Excluded(t) : t \in 0..MaxBoundTime}

InitSerde ==
    \E lt \in BoundValues : \E rt \in BoundValues :
        /\ rooms = {}
        /\ events = {}
        /\ changes = {}
        /\ clock = 0
        /\ task = <<>>
        /\ origin = <<>>
        /\ outbox = <<>>
        /\ store0 = [rooms |-> {}, events |-> {}, editions |-> {}]
        /\ editions = {}
        /\ request = [pc |-> "value", method |-> "serde", value |-> <<lt, rt>>,
                      tuple |-> <<>>, back |-> <<>>]

SpecSerde == InitSerde /\ [][NextSerde]_vars

---------------------------------------------------------------------------
(* Two commit tasks spawned by two edition.commit requests *)

\* a second edition of the source room
SecondEdition == TheEdition + 1

\* a change of another edition
OfEdition(c, edition_id) == [c EXCEPT !.edition_id = edition_id]

\* CommitHandler::handle twice: each request spawns its own task
StartPair(inp, first, second) ==
    /\ rooms = inp.rooms
    /\ events = inp.events
    /\ changes = inp.changes
    /\ clock = inp.clock
    /\ task = [t \in {1, 2} |-> NewTask(IF t = 1 THEN first ELSE second, SourceRoom)]
    /\ origin = <<>>
    /\ outbox = <<>>
    /\ store0 = [rooms |-> inp.rooms, events |-> inp.events, editions |-> {TheEdition, SecondEdition},
                 changes |-> inp.changes]
    /\ editions = {TheEdition, SecondEdition}
    /\ request = NoRequest

\* tests::commit_edition with a second edition that cuts another part of
\* the stream, removes another message and adds one
TwoEditionsInput ==
    Input(CommitEditionInput.rooms, CommitEditionInput.events,
          CommitEditionInput.changes \cup
            {OfEdition(StreamAddition(4, 15000, "start"), SecondEdition),
             OfEdition(StreamAddition(5, 18000, "stop"), SecondEdition),
             OfEdition(Removal(6, 7), SecondEdition),
             OfEdition(MessageAddition(7, 30000), SecondEdition)},
          0)

\* an edition with two additions placed at the same time, and another with
\* an addition at that time too
SameTimeAdditionsInput ==
    Input({TestRoom},
          {TestEvent(1, 10000, "message", [message |-> "m1"])},
          {MessageAddition(1, 20000), MessageAddition(2, 20000),
           OfEdition(MessageAddition(3, 20000), SecondEdition)},
          0)

InitPair ==
    \E inp \in {TwoEditionsInput, SameTimeAdditionsInput} :
    \E first \in {TheEdition, SecondEdition} :
    \E second \in {TheEdition, SecondEdition} :
        StartPair(inp, first, second)

SpecPair == InitPair /\ [][Next]_vars

---------------------------------------------------------------------------
(* Requests that write to the source room and to the edition while a
   commit runs: endpoint::event::CreateHandler and the change endpoints *)

MaxWrites == 2

MaxRaceClock == 2

\* the source log and the change set as one statement sees them
SnapshotOf(evs, chs) == [events |-> {e \in evs : e.room_id = SourceRoom}, changes |-> chs]

\* the writers' request counter and the snapshots the store has gone through
RaceRequest(writes, snapshots) ==
    [pc |-> "writing", method |-> "event.create", writes |-> writes, snapshots |-> snapshots]

\* tstzrange @> now
TimeContains(time, now) ==
    /\ time[1] = Unbounded \/ (time[1][1] = "Included" /\ time[1][2] <= now)
         \/ (time[1][1] = "Excluded" /\ time[1][2] < now)
    /\ time[2] = Unbounded \/ (time[2][1] = "Included" /\ now <= time[2][2])
         \/ (time[2][1] = "Excluded" /\ now < time[2][2])

\* db::room::FindQuery::new(id).time(now)
FindRoomAt(rs, id, now) == {r \in rs : r.id = id /\ TimeContains(r.time, now)}

\* CreateRequest { room_id, kind, data } and whether the agent has entered
CreatePayloads ==
    {[room_id |-> SourceRoom, kind |-> "stream", data |-> [cut |-> "start"]],
     [room_id |-> SourceRoom, kind |-> "stream", data |-> [cut |-> "stop"]],
     [room_id |-> SourceRoom, kind |-> "message", data |-> [message |-> "m"]]}

\* CreateHandler::handle: the room is found and open, the agent has entered
\* it, the event is inserted at the offset of now from the room's opening
EventCreate ==
    /\ request.pc = "writing"
    /\ request.writes < MaxWrites
    /\ \E now \in clock..Min2(clock + 1, MaxRaceClock) :
       \E payload \in CreatePayloads : \E entered \in BOOLEAN :
         LET found == FindRoomAt(rooms, payload.room_id, now)
             room == CHOOSE r \in found : TRUE
             event == EventRow(MaxId(events) + 1, room.id, payload.kind, payload.kind, None,
                               payload.data, now - room.time[1][2], "agent0", now, None)
         IN /\ clock' = now
            /\ IF found = {}
                 THEN /\ outbox' = Append(outbox, Response("NOT_FOUND"))
                      /\ events' = events
               ELSE IF ~entered
                 THEN /\ outbox' = Append(outbox, Response("FORBIDDEN"))
                      /\ events' = events
               ELSE IF room.time[1][1] # "Included"
                 THEN /\ outbox' = Append(outbox, Response("UNPROCESSABLE_ENTITY"))
                      /\ events' = events
               ELSE /\ events' = events \cup {event}
                    /\ outbox' = outbox \o
                         <<BuildResponse("CREATED", event),
                           BuildNotification("event.create", <<"rooms", room.id, "events">>, event)>>
            /\ request' = [request EXCEPT !.writes = @ + 1,
                              !.snapshots = @ \cup {SnapshotOf(events', changes)}]
    /\ UNCHANGED <<rooms, changes, task, origin, store0, editions>>

\* the change rows a client may add: a cut, a new message, the removal of
\* an event of the source room
NewChanges(id) ==
    {StreamAddition(id, 0, "start"), StreamAddition(id, 1, "stop"), MessageAddition(id, 1)}
      \cup {Removal(id, e.id) : e \in {x \in events : x.room_id = SourceRoom}}

\* change.create: one row inserted into the edition's change set
ChangeCreate ==
    /\ request.pc = "writing"
    /\ request.writes < MaxWrites
    /\ \E c \in NewChanges(MaxId(changes) + 1) :
         /\ changes' = changes \cup {c}
         /\ request' = [request EXCEPT !.writes = @ + 1,
                           !.snapshots = @ \cup {SnapshotOf(events, changes')}]
    /\ UNCHANGED <<rooms, events, task, clock, origin, outbox, store0, editions>>

\* change.delete: one row deleted from the edition's change set
ChangeDelete ==
    /\ request.pc = "writing"
    /\ request.writes < MaxWrites
    /\ \E c \in changes :
         /\ changes' = changes \ {c}
         /\ request' = [request EXCEPT !.writes = @ + 1,
                           !.snapshots = @ \cup {SnapshotOf(events, changes')}]
    /\ UNCHANGED <<rooms, events, task, clock, origin, outbox, store0, editions>>

NextRace == Next \/ EventCreate \/ ChangeCreate \/ ChangeDelete

\* a room open from 0 for longer than the writers' clock runs
RaceRoom == RoomRow(SourceRoom, "aud", <<Included(0), Excluded(MaxRaceClock + 2)>>, None, None)

\* a log with one message and an empty edition; a log with a cut and a
\* message behind it, and an edition that adds a message
RaceInputs ==
    {Input({RaceRoom}, {MessageEvent(1, 1, 0, None, None)}, {}, 0),
     Input({RaceRoom},
           {StreamEvent(1, 0, "start", 0), StreamEvent(2, 1, "stop", 0),
            MessageEvent(3, 2, 0, None, None)},
           {MessageAddition(1, 2)}, 0)}

StartRace(inp) ==
    /\ rooms = inp.rooms
    /\ events = inp.events
    /\ changes = inp.changes
    /\ clock = inp.clock
    /\ task = [t \in {1} |-> NewTask(TheEdition, SourceRoom)]
    /\ origin = <<>>
    /\ outbox = <<>>
    /\ store0 = [rooms |-> inp.rooms, events |-> inp.events, editions |-> Editions,
                 changes |-> inp.changes]
    /\ editions = Editions
    /\ request = RaceRequest(0, {SnapshotOf(inp.events, inp.changes)})

InitRace == \E inp \in RaceInputs : StartRace(inp)

SpecRace == InitRace /\ [][NextRace]_vars

---------------------------------------------------------------------------
(* Vocabulary of the properties *)

Tasks == DOMAIN task

Collected(t) == task[t].collected.status # "none"

Committed(t) == task[t].pc = "done"

IsInput(inp) ==
    /\ {r \in rooms : r.id = SourceRoom} = inp.rooms
    /\ {e \in events : e.room_id = SourceRoom} = inp.events
    /\ changes = inp.changes

DestinationEvents(t) ==
    IF task[t].destination = None THEN {}
    ELSE {e \in events : e.room_id = Get(task[t].destination)}

\* the markers of task t in the order the analyzer meets them
AllKeyed(t) == \A c \in Range(task[t].cut_changes) : c.event_occurred_at # None

Cuts(t) == SortByKey(CutVec(task[t].cut_events, task[t].cut_changes))

CmdAt(seq, i) ==
    IF seq[i].command = None THEN "nodata"
    ELSE IF Get(seq[i].command) = None THEN "nocut"
    ELSE Get(Get(seq[i].command))

\* cut-starts minus cut-stops among the first k markers
Balance(seq, k) ==
    Cardinality({i \in 1..k : CmdAt(seq, i) = "start"})
      - Cardinality({i \in 1..k : CmdAt(seq, i) = "stop"})

\* the first k markers are starts and stops, no stop without an open start
WellNested(seq, k) ==
    \A i \in 1..k : CmdAt(seq, i) \in {"start", "stop"} /\ Balance(seq, i) >= 0

\* marker i is a stop while Stopped, or neither a start nor a stop
BadMarker(seq, i) ==
    /\ WellNested(seq, i - 1)
    /\ \/ CmdAt(seq, i) \in {"pause", "nocut"}
       \/ CmdAt(seq, i) = "stop" /\ Balance(seq, i - 1) = 0

\* the gaps of a well nested sequence: from each outermost start to the
\* stop that closes it
RECURSIVE MergedGapsFrom(_, _)
MergedGapsFrom(seq, i) ==
    IF i > Len(seq) THEN <<>>
    ELSE IF CmdAt(seq, i) = "start" /\ Balance(seq, i - 1) = 0
              /\ \E j \in (i + 1)..Len(seq) : Balance(seq, j) = 0
      THEN LET j == CHOOSE j \in (i + 1)..Len(seq) :
                      /\ Balance(seq, j) = 0
                      /\ \A k \in (i + 1)..(j - 1) : Balance(seq, k) # 0
           IN <<(<<Get(seq[i].occurred_at), Get(seq[j].occurred_at)>>)>>
                \o MergedGapsFrom(seq, j + 1)
    ELSE MergedGapsFrom(seq, i + 1)

---------------------------------------------------------------------------
(* Gap analysis *)

\* C1: gap analysis, and with it the commit, fails whenever the sorted
\* sequence of cut markers ends with a cut-start that has no matching
\* cut-stop (the analyzer would end in state Started).
C1_UnclosedCutFails ==
    \A t \in Tasks :
        (Collected(t) /\ AllKeyed(t) /\ WellNested(Cuts(t), Len(Cuts(t)))
           /\ Balance(Cuts(t), Len(Cuts(t))) > 0)
        => (task[t].collected.status = "err" /\ task[t].pc = "failed")

\* C2: gap analysis fails with an error and emits no gap list as soon as it
\* meets a cut-stop while Stopped or a marker that is neither a start nor a
\* stop (in either state), whether the marker is an event or a change.
C2_BadMarkerFails ==
    \A t \in Tasks :
        (Collected(t) /\ AllKeyed(t)) =>
            \A i \in DOMAIN Cuts(t) :
                BadMarker(Cuts(t), i) =>
                    /\ task[t].collected.status = "err"
                    /\ task[t].collected.at = i
                    /\ task[t].collected.gaps = <<>>
                    /\ task[t].cut_gaps = <<>>
                    /\ task[t].pc = "failed"
                    /\ task[t].destination = None

\* a change marker that is neither start nor stop, met while Started, has
\* failed the analysis
C2_Witness ==
    \E t \in Tasks :
        /\ Collected(t) /\ AllKeyed(t)
        /\ task[t].collected.status = "err"
        /\ \E i \in DOMAIN Cuts(t) :
              /\ BadMarker(Cuts(t), i)
              /\ Cuts(t)[i].src = "Change"
              /\ CmdAt(Cuts(t), i) = "pause"
              /\ Balance(Cuts(t), i - 1) > 0

\* C3: nested or overlapping cuts are merged: whenever the analysis
\* succeeds the gaps are exactly [outermost start, stop met at depth 0),
\* one per group; and in the intersecting-gaps scenario the single gap is
\* [3e9, 4.5e9), the event at 5e9 lands at 3.5e9 and two segments result.
C3_NestedCutsMerged ==
    \A t \in Tasks :
        /\ (Collected(t) /\ task[t].collected.status = "ok")
             => task[t].cut_gaps = MergedGapsFrom(Cuts(t), 1)
        /\ IsInput(IntersectingGapsInput) =>
             /\ task[t].pc # "panicked" /\ (task[t].pc = "failed" => task[t].error = "storage")
             /\ Collected(t) => task[t].cut_gaps = <<(<<30000, 45000>>)>>
             /\ Committed(t) =>
                  /\ \E e \in DestinationEvents(t) :
                        e.data = [message |-> "passthrough2"] /\ e.occurred_at = 35000
                  /\ Len(task[t].segments) = 2

\* start, start, stop, stop at two times and from both origins gave the
\* one gap from the first start to the last stop
C3_Witness ==
    \E t \in Tasks :
        /\ Collected(t) /\ AllKeyed(t) /\ Len(Cuts(t)) = 4
        /\ [i \in 1..4 |-> CmdAt(Cuts(t), i)] = <<"start", "start", "stop", "stop">>
        /\ Cuts(t)[1].src # Cuts(t)[2].src
        /\ Cuts(t)[1].occurred_at # Cuts(t)[2].occurred_at
        /\ task[t].cut_gaps = <<(<<Get(Cuts(t)[1].occurred_at), Get(Cuts(t)[4].occurred_at)>>)>>

\* C4 as stated: in scenario S2 the analyzer yields the two overlapping
\* gaps [3e9, 4e9) and [3.2e9, 4.5e9) and the event at 5e9 ends at 2.7e9.
C4_OverlappingGapsKept ==
    \A t \in Tasks :
        (IsInput(IntersectingGapsInput) /\ Committed(t)) =>
            /\ task[t].cut_gaps = <<(<<30000, 40000>>), (<<32000, 45000>>)>>
            /\ \E e \in DestinationEvents(t) :
                  e.data = [message |-> "passthrough2"] /\ e.occurred_at = 27000

\* C4 amended: in scenario S2 the analyzer yields the single merged gap
\* [3e9, 4.5e9); the event at 5e9 ends at 5e9 - (4.5e9 - 3e9) = 3.5e9 and
\* the event at 3.5e9 collapses to the gap start 3e9 (plus its tie-break).
C4_ScenarioMergedGap ==
    \A t \in Tasks :
        IsInput(IntersectingGapsInput) =>
            /\ task[t].pc # "panicked" /\ (task[t].pc = "failed" => task[t].error = "storage")
            /\ Committed(t) =>
                 /\ task[t].cut_gaps = <<(<<30000, 45000>>)>>
                 /\ \A e \in DestinationEvents(t) :
                       /\ e.data = [message |-> "passthrough2"] => e.occurred_at = 50000 - (45000 - 30000)
                       /\ e.data = [message |-> "cutted out"] => e.occurred_at = 30000 + 1
                       /\ e.data = [message |-> "passthrough"] => e.occurred_at = 25000
                 /\ Cardinality(DestinationEvents(t)) = 3

C4_Witness ==
    \E t \in Tasks :
        /\ IsInput(IntersectingGapsInput) /\ Committed(t)
        /\ \E e \in DestinationEvents(t) : e.data = [message |-> "passthrough2"]

---------------------------------------------------------------------------
(* Cloned events *)

Cloned(t) == task[t].pc \in {"delete_cut_events", "invert_segments", "done"}

\* the ids of the rows the clone statement of task t inserted
Inserted(t) ==
    IF task[t].destination = None THEN {}
    ELSE {id \in DOMAIN origin : origin[id].room_id = Get(task[t].destination)}

EventById(id) == CHOOSE e \in events : e.id = id

ChangeById(id) == CHOOSE c \in changes : c.id = id

FromEvent(id) == origin[id].event # None

SourceOf(id) == EventById(Get(origin[id].event))

HasChange(id) == origin[id].change # None

ChangeOf(id) == ChangeById(Get(origin[id].change))

\* the row carries no override of occurred_at
NoTimeOverride(id) == ~HasChange(id) \/ ChangeOf(id).event_occurred_at = None

RECURSIVE SumGaps(_, _, _)
SumGaps(gaps, I, at) ==
    IF I = {} THEN 0
    ELSE LET i == CHOOSE i \in I : TRUE
         IN (Min2(gaps[i][2], at) - gaps[i][1]) + SumGaps(gaps, I \ {i}, at)

\* at minus, over the gaps that start before at, min(stop, at) - start
Compressed(gaps, at) == at - SumGaps(gaps, {i \in DOMAIN gaps : gaps[i][1] < at}, at)

\* C5: a surviving source event with no occurred_at override and base time
\* at gets, before tie-breaking, at minus the sum over the gaps starting
\* before at of min(stop, at) - start; so an event inside a gap collapses to
\* that gap's compressed start and an event at a gap's start is not shifted
\* by that gap.
C5_SourceEventCompressed ==
    \A t \in Tasks : Cloned(t) =>
        \A id \in Inserted(t) : (FromEvent(id) /\ NoTimeOverride(id)) =>
            LET at == SourceOf(id).occurred_at
                gaps == task[t].cut_gaps
            IN /\ origin[id].squeezed = Compressed(gaps, at)
               /\ \A i \in DOMAIN gaps :
                     /\ (gaps[i][1] < at /\ at < gaps[i][2])
                          => origin[id].squeezed = Compressed(gaps, gaps[i][1])
                     /\ (gaps[i][1] = at /\ \A j \in DOMAIN gaps : gaps[j][1] >= at)
                          => origin[id].squeezed = at

\* an event strictly inside the second of two gaps was cloned
C5_Witness ==
    \E t \in Tasks : Cloned(t) /\ Len(task[t].cut_gaps) = 2 /\
        \E id \in Inserted(t) :
            /\ FromEvent(id) /\ NoTimeOverride(id) /\ SourceOf(id).kind = "message"
            /\ task[t].cut_gaps[2][1] < SourceOf(id).occurred_at
            /\ SourceOf(id).occurred_at < task[t].cut_gaps[2][2]
            /\ task[t].cut_gaps[1][1] < task[t].cut_gaps[1][2]
            /\ origin[id].squeezed < task[t].cut_gaps[2][1]

\* C6: the time used for gap compression is the change-applied one: for an
\* addition, and for a modification that overrides event_occurred_at, the
\* gaps considered and the clamping use the change's event_occurred_at.
C6_ChangeTimeCompressed ==
    \A t \in Tasks : Cloned(t) =>
        \A id \in Inserted(t) : (HasChange(id) /\ ChangeOf(id).event_occurred_at # None) =>
            origin[id].squeezed = Compressed(task[t].cut_gaps, Get(ChangeOf(id).event_occurred_at))

\* C7: after a successful commit the destination rows have pairwise
\* different occurred_at.
C7_DestinationTimesDistinct ==
    \A t \in Tasks : Committed(t) =>
        \A a, b \in DestinationEvents(t) : a.id # b.id => a.occurred_at # b.occurred_at

\* the rows of task t that collide on the compressed time c
Bucket(t, c) == {id \in Inserted(t) : origin[id].squeezed = c}

\* C8: rows colliding on one compressed occurred_at are numbered by
\* created_at ascending (an addition's created_at is the commit time) and
\* the k-th gets compressed + (k - 1); cut markers are numbered with the
\* rest before they are stripped (tests::commit_edition: the event at 4e9
\* ends at 3e9 + 2).
C8_TieBreakByCreatedAt ==
    \A t \in Tasks :
        /\ task[t].pc = "delete_cut_events" =>
             \A id \in Inserted(t) :
                LET c == origin[id].squeezed
                    row == EventById(id)
                IN /\ {EventById(x).occurred_at : x \in Bucket(t, c)}
                        = c..(c + Cardinality(Bucket(t, c)) - 1)
                   /\ \A x \in Bucket(t, c) :
                         EventById(x).created_at < row.created_at
                            => EventById(x).occurred_at < row.occurred_at
                   /\ ~FromEvent(id) => row.created_at = clock
                   /\ FromEvent(id) => row.created_at = SourceOf(id).created_at
        /\ (IsInput(CommitEditionInput) /\ Committed(t)) =>
             \E e \in DestinationEvents(t) :
                e.data = [message |-> "m4"] /\ e.occurred_at = 30000 + 2

\* a bucket of three rows created at three times, a cut marker among them
C8_Witness ==
    \E t \in Tasks : task[t].pc = "delete_cut_events" /\
        \E c \in {origin[id].squeezed : id \in Inserted(t)} :
            /\ Cardinality(Bucket(t, c)) >= 3
            /\ Cardinality({EventById(x).created_at : x \in Bucket(t, c)}) >= 3
            /\ \E x \in Bucket(t, c) : EventById(x).kind = "stream"
            /\ \E x \in Bucket(t, c) : ~FromEvent(x)

\* C9: if a removal change references source event e, the destination holds
\* no event derived from e, also when other changes reference e.
C9_RemovedEventAbsent ==
    \A t \in Tasks : Committed(t) =>
        \A c \in changes : (c.kind = "removal" /\ c.event_id # None) =>
            ~\E id \in Inserted(t) : origin[id].event = c.event_id

\* C10: for a modification of source event e every editable field of the
\* destination event (kind, set, label, data, occurred_at, created_by) is
\* the change's override when there is one and e's value otherwise.
C10_ModificationOverrides ==
    \A t \in Tasks : (Cloned(t) /\ task[t].cut_gaps = <<>>) =>
        \A id \in Inserted(t) :
            (FromEvent(id) /\ HasChange(id) /\ ChangeOf(id).kind = "modification") =>
                LET c == ChangeOf(id)
                    e == SourceOf(id)
                    row == EventById(id)
                IN /\ row.kind = Get(COALESCE(c.event_kind, Some(e.kind)))
                   /\ row.set = Get(COALESCE(c.event_set, Some(e.set)))
                   /\ row.label = COALESCE(c.event_label, e.label)
                   /\ row.data = Get(COALESCE(c.event_data, Some(e.data)))
                   /\ origin[id].squeezed = Get(COALESCE(c.event_occurred_at, Some(e.occurred_at)))
                   /\ row.created_by = Get(COALESCE(c.event_created_by, Some(e.created_by)))

\* C11: a live source event that no change references is passed through
\* unchanged: the destination row has its kind, set, label, data, attribute,
\* created_by and created_at.
C11_PassThroughUnchanged ==
    \A t \in Tasks : Cloned(t) =>
        \A row \in DestinationEvents(t) : (FromEvent(row.id) /\ ~HasChange(row.id)) =>
            LET e == SourceOf(row.id)
            IN /\ row.kind = e.kind
               /\ row.set = e.set
               /\ row.label = e.label
               /\ row.data = e.data
               /\ row.attribute = e.attribute
               /\ row.created_by = e.created_by
               /\ row.created_at = e.created_at

\* the live source events that are no cut markers
LivePlainSource(t) ==
    {e \in events : e.room_id = task[t].source_id /\ e.deleted_at = None /\ e.kind # "stream"}

\* C12: with an empty change set the destination events correspond one to
\* one to the live source events of kind other than stream, and each
\* differs from its source event only in id, room and the compressed (and
\* tie-broken) occurred_at.
C12_EmptyChangeSetPassThrough ==
    \A t \in Tasks : (Committed(t) /\ EditionChanges(changes, task[t].edition_id) = {}) =>
        /\ \A row \in DestinationEvents(t) :
              /\ FromEvent(row.id) /\ SourceOf(row.id) \in LivePlainSource(t)
              /\ [row EXCEPT !.id = 0, !.room_id = 0, !.occurred_at = 0]
                   = [SourceOf(row.id) EXCEPT !.id = 0, !.room_id = 0, !.occurred_at = 0]
              /\ origin[row.id].squeezed
                   = Compressed(task[t].cut_gaps, SourceOf(row.id).occurred_at)
              /\ row.occurred_at - origin[row.id].squeezed
                   \in 0..(Cardinality(Bucket(t, origin[row.id].squeezed)) - 1)
        /\ \A e \in LivePlainSource(t) :
              Cardinality({row \in DestinationEvents(t) : origin[row.id].event = Some(e.id)}) = 1

\* C13: once a commit has returned success the destination room holds no
\* event of kind stream, whether cloned from a source cut marker, from an
\* added stream change or from a modification that set event_kind to stream.
C13_NoStreamInDestination ==
    \A t \in Tasks : Committed(t) =>
        /\ \A e \in DestinationEvents(t) : e.kind # "stream"
        /\ \A id \in Inserted(t) :
              (\/ (FromEvent(id) /\ ~HasChange(id) /\ SourceOf(id).kind = "stream")
               \/ (HasChange(id) /\ ChangeOf(id).event_kind = Some("stream")))
                 => id \notin {e.id : e \in events}

\* a commit succeeded whose clone had written a marker of each origin
C13_Witness ==
    \E t \in Tasks : Committed(t) /\ task[t].notified /\
        /\ \E id \in Inserted(t) : FromEvent(id) /\ ~HasChange(id) /\ SourceOf(id).kind = "stream"
        /\ \E id \in Inserted(t) : ~FromEvent(id) /\ ChangeOf(id).event_kind = Some("stream")
        /\ \E id \in Inserted(t) :
              /\ FromEvent(id) /\ HasChange(id) /\ SourceOf(id).kind = "message"
              /\ ChangeOf(id).kind = "modification" /\ ChangeOf(id).event_kind = Some("stream")
        /\ DestinationEvents(t) = {}

\* C14: the destination room of a commit has the audience, time and tags of
\* the source room and the source room's id as source_room_id, and a
\* successful commit creates exactly one room.
C14_DestinationRoomCloned ==
    \A t \in Tasks :
        /\ Cardinality(rooms \ store0.rooms) = (IF task[t].destination = None THEN 0 ELSE 1)
        /\ task[t].destination # None =>
             LET source == RoomById(rooms, task[t].source_id)
                 destination == RoomById(rooms, Get(task[t].destination))
             IN /\ rooms \ store0.rooms = {destination}
                /\ destination.id # source.id
                /\ destination.audience = source.audience
                /\ destination.time = source.time
                /\ destination.tags = source.tags
                /\ destination.source_room_id = Some(source.id)
        /\ Committed(t) => task[t].destination # None

\* the tests' room, which has tags, was committed
C14_Witness ==
    \E t \in Tasks :
        /\ Committed(t) /\ IsInput(CommitEditionInput)
        /\ RoomById(rooms, Get(task[t].destination)).tags = Some("tags")
        /\ Cardinality(rooms) = 2

\* the source room's time is [opened_at, closed_at) with closed_at > opened_at
WellFormedTime(time) ==
    /\ time[1][1] = "Included" /\ time[2][1] = "Excluded"
    /\ time[2][2] > time[1][2]

Broadcasts == {outbox[i] : i \in {j \in DOMAIN outbox : outbox[j].type = "broadcast"}}

\* the commit of task t has touched neither the rooms nor the events
StoreUntouched(t) ==
    /\ rooms = store0.rooms
    /\ events = store0.events
    /\ origin = <<>>
    /\ task[t].destination = None

\* the task of t has run and failed on the room's time before any query
FailedOnRoomTime(t) ==
    /\ task[t].pc = "failed"
    /\ task[t].error = "invalid duration"
    /\ task[t].cut_events = <<>> /\ task[t].cut_changes = <<>>
    /\ ~Collected(t)
    /\ StoreUntouched(t)

RECURSIVE TotalLength(_, _)
\* the sum of stop - start over the intervals i.. of seq
TotalLength(seq, i) ==
    IF i > Len(seq) THEN 0 ELSE (seq[i][2] - seq[i][1]) + TotalLength(seq, i + 1)

\* the part of the gaps inside [0, room_duration)
GapsInBounds(gaps, room_duration) ==
    [i \in DOMAIN gaps |-> <<Min2(gaps[i][1], room_duration), Min2(gaps[i][2], room_duration)>>]

Abs(x) == IF x < 0 THEN 0 - x ELSE x

\* room_duration minus the in-bounds gap durations, in ticks
KeptDuration(t) ==
    task[t].room_duration - TotalLength(GapsInBounds(task[t].cut_gaps, task[t].room_duration), 1)

\* the same in whole milliseconds, each duration converted on its own
KeptMilliseconds(t) ==
    (task[t].room_duration \div NANOSECONDS_IN_MILLISECOND)
      - TotalLength([i \in DOMAIN task[t].cut_gaps |->
            <<0, (GapsInBounds(task[t].cut_gaps, task[t].room_duration)[i][2]
                   - GapsInBounds(task[t].cut_gaps, task[t].room_duration)[i][1])
                     \div NANOSECONDS_IN_MILLISECOND>>], 1)

\* the complement of the gaps of task t in [0, room_duration), in ticks
Complement(t) == invert_segments(task[t].cut_gaps, task[t].room_duration)

\* the returned segments are the complement of the gaps, each bound given
\* as the millisecond it lies in
SegmentsAreComplement(t) ==
    LET pieces == Complement(t)
        gaps == GapsInBounds(task[t].cut_gaps, task[t].room_duration)
    IN /\ \A i \in DOMAIN pieces :
            /\ 0 <= pieces[i][1] /\ pieces[i][1] < pieces[i][2]
            /\ pieces[i][2] <= task[t].room_duration
            /\ \A j \in DOMAIN gaps : pieces[i][2] <= gaps[j][1] \/ gaps[j][2] <= pieces[i][1]
            /\ i > 1 => pieces[i - 1][2] <= pieces[i][1]
       /\ TotalLength(pieces, 1) = KeptDuration(t)
       /\ Len(task[t].segments) = Len(pieces)
       /\ \A i \in DOMAIN pieces : \A b \in {1, 2} :
            /\ task[t].segments[i][b] * NANOSECONDS_IN_MILLISECOND <= pieces[i][b]
            /\ pieces[i][b] < (task[t].segments[i][b] + 1) * NANOSECONDS_IN_MILLISECOND

\* C17 as stated: the returned segments are the complement of the gaps in
\* [0, room_duration) in milliseconds, and their durations sum to
\* room_duration minus the in-bounds gap durations, in milliseconds, within
\* 1 ms, whatever the number of gaps (be the right-hand side converted as a
\* whole or duration by duration).
C17_SegmentsWithinOneMs ==
    \A t \in Tasks : Committed(t) =>
        /\ SegmentsAreComplement(t)
        /\ \/ Abs(TotalLength(task[t].segments, 1) * NANOSECONDS_IN_MILLISECOND - KeptDuration(t))
                <= NANOSECONDS_IN_MILLISECOND
           \/ Abs(TotalLength(task[t].segments, 1) - KeptMilliseconds(t)) <= 1

\* C17 amended: the returned segments are the complement of the gaps in
\* [0, room_duration) in milliseconds, and their durations sum to
\* room_duration minus the in-bounds gap durations within less than 1 ms
\* per returned segment.
C17_SegmentsWithinOneMsEach ==
    \A t \in Tasks : Committed(t) =>
        /\ SegmentsAreComplement(t)
        /\ IF task[t].segments = <<>> THEN KeptDuration(t) = 0
           ELSE Abs(TotalLength(task[t].segments, 1) * NANOSECONDS_IN_MILLISECOND - KeptDuration(t))
                  < Len(task[t].segments) * NANOSECONDS_IN_MILLISECOND

\* three segments, each shorter than a millisecond after conversion by more
\* than half a millisecond
C17_Witness ==
    \E t \in Tasks :
        /\ Committed(t) /\ Len(task[t].cut_gaps) = 2 /\ Len(task[t].segments) = 3
        /\ TotalLength(task[t].segments, 1) = 0
        /\ KeptDuration(t) > 2 * NANOSECONDS_IN_MILLISECOND

\* the handler has answered 202 Accepted
Accepted == \E i \in DOMAIN outbox : outbox[i] = Response("ACCEPTED")

\* exactly one notification went out, on the audience's events topic, with
\* status success and the rooms and segments or status error and the error
OneBroadcast ==
    /\ Cardinality({i \in DOMAIN outbox : outbox[i].type = "broadcast"}) = 1
    /\ \A m \in Broadcasts :
          /\ m.label = "edition.commit"
          /\ m.path = <<"audiences", RoomById(rooms, SourceRoom).audience, "events">>
          /\ \/ /\ m.status = "success"
                /\ m.result.source_room_id # None /\ m.result.committed_room_id # None
                /\ m.result.modified_segments # None
             \/ m.status = "error" /\ m.result.error # None

\* the detached task of t has come to rest: it has published its
\* notification, or it has unwound and will take no further step
Ended(t) ==
    \/ task[t].pc \in {"done", "failed"} /\ task[t].notified
    \/ task[t].pc = "panicked"

\* C18: every authorized edition.commit request for an existing edition is
\* answered 202 Accepted and ends with exactly one edition.commit
\* broadcast, success or error: when the detached task has come to rest its
\* outcome has been broadcast, a failure is never lost.
C18_AcceptedThenOneBroadcast ==
    \A t \in Tasks :
        /\ task[t].pc \notin {"request", "rejected"} => Accepted
        /\ Cardinality({i \in DOMAIN outbox : outbox[i].type = "broadcast"}) <= 1
        /\ Ended(t) => OneBroadcast

C20_OrphanRoomAfterFailure ==
    \A t \in Tasks : (task[t].pc = "failed" /\ task[t].error \in {"storage", "Failed cloning events"}) =>
        /\ task[t].destination # None
        /\ \E r \in rooms \ store0.rooms :
              /\ Some(r.id) = task[t].destination
              /\ r.source_room_id = Some(task[t].source_id)
        /\ {e \in events : e.room_id = task[t].source_id} = store0.events
        /\ \/ DestinationEvents(t) = {} /\ Inserted(t) = {}
           \/ {e.id : e \in DestinationEvents(t)} = Inserted(t)
        /\ task[t].notified =>
              /\ Cardinality(Broadcasts) = 1
              /\ \A m \in Broadcasts : m.status = "error" /\ m.result.committed_room_id = None

\* the strip failed: the orphan room holds cloned events with a cut marker
\* among them and the error was broadcast
C20_Witness ==
    \E t \in Tasks :
        /\ task[t].pc = "failed" /\ task[t].error = "storage" /\ task[t].notified
        /\ \E r \in rooms : Some(r.id) = task[t].destination /\ r.source_room_id # None
        /\ \E e \in DestinationEvents(t) : e.kind = "stream"
        /\ \E e \in DestinationEvents(t) : e.kind # "stream"

---------------------------------------------------------------------------
(* Vocabulary of the state.read properties *)

Responded(method) == request.pc = "responded" /\ request.method = method

\* the response to the request in flight: the last message published
LastResponse == outbox[Len(outbox)]

ValidSets(sets) == Len(sets) >= 1 /\ Len(sets) <= 10

\* C22: state.read validates the sets, then looks the room up, then asks
\* for authorization: empty sets or more than 10 sets are answered 422
\* invalid_state_sets, and valid sets for a missing room 404 room_not_found,
\* whatever the authorization would say, and the authorization collaborator
\* is not called in either case.
C22_ChecksInOrder ==
    Responded("state.read") =>
        /\ ~ValidSets(request.sets) =>
             /\ LastResponse.status = "UNPROCESSABLE_ENTITY"
             /\ LastResponse.kind = "invalid_state_sets"
             /\ request.authz_calls = 0
             /\ Len(outbox) = 1
        /\ (ValidSets(request.sets) /\ ~HasRoom(rooms, request.room_id)) =>
             /\ LastResponse.status = "NOT_FOUND"
             /\ LastResponse.kind = "room_not_found"
             /\ request.authz_calls = 0
             /\ Len(outbox) = 1

\* an unauthorized request with too many sets for a missing room was answered
C22_Witness ==
    /\ Responded("state.read")
    /\ Len(request.sets) > 10
    /\ ~HasRoom(rooms, request.room_id)
    /\ ~request.authorized
    /\ LastResponse.kind = "invalid_state_sets"

\* the cursor the last response was computed at
CursorOf(req) ==
    IF req.original_occurred_at # None THEN Get(req.original_occurred_at)
    ELSE MaxStateTime + 2

\* the query of the request for one of its sets, without its limit
RequestQuery(req, set) ==
    [room_id |-> req.room_id, set |-> set, original_occurred_at |-> CursorOf(req),
     limit |-> 0, attribute |-> req.attribute, occurred_at |-> req.occurred_at]

EffectiveLimit(req) ==
    IF req.limit = None \/ Get(req.limit) > 100 THEN 100 ELSE Get(req.limit)

Answered == Responded("state.read") /\ LastResponse.status = "OK"

\* C23: when exactly one set is requested the response map has a has_next
\* key holding the boolean (total count of the set's state at the cursor >
\* effective limit), effective limit = min(requested limit or 100, 100),
\* for every set name; with two or more sets no has_next is computed.
C23_HasNextFlag ==
    (Answered /\ rooms = {StateRoom}) =>
        /\ Len(request.sets) = 1 =>
             /\ "has_next" \in DOMAIN LastResponse.payload
             /\ LastResponse.payload["has_next"] =
                  JsonBool(Cardinality(SetState(events, RequestQuery(request, request.sets[1])))
                             > EffectiveLimit(request))
        /\ (Len(request.sets) >= 2 /\ \A i \in DOMAIN request.sets : request.sets[i] # "has_next")
             => "has_next" \notin DOMAIN LastResponse.payload

\* the events the query returns for a set of the request
Returned(req, set) ==
    Take(SortVersionsDesc(SetState(events, RequestQuery(req, set))), EffectiveLimit(req))

PlainSets(req) == {req.sets[i] : i \in DOMAIN req.sets} \ {"has_next"}

\* C24: a set's value is the event object itself if and only if the set's
\* state consists of a single unlabeled event; in every other case (no
\* events, labeled events, several unlabeled events) the value is an array
\* holding all events returned for that set.
C24_ObjectIffSingleUnlabeled ==
    (Answered /\ rooms = {StateRoom}) =>
        \A set \in PlainSets(request) :
            LET returned == Returned(request, set)
                value == LastResponse.payload[set]
            IN IF Len(returned) = 1 /\ returned[1].label = None
                 THEN value = [tag |-> "object", event |-> returned[1]]
               ELSE value = [tag |-> "array", events |-> returned]

\* the events of all pages read so far, in the order returned
RECURSIVE PagesFrom(_, _)
PagesFrom(set, i) ==
    IF i > Len(outbox) THEN <<>>
    ELSE (IF outbox[i].status = "OK" THEN PageOf(outbox[i], set) ELSE <<>>)
           \o PagesFrom(set, i + 1)

\* the reading of one set has ended: the last page says has_next = false.
\* A reading of several pages started at the default cursor (InitStatePaging).
PagingEnded ==
    /\ Answered
    /\ rooms = {StateRoom}
    /\ Len(request.sets) = 1
    /\ request.sets[1] # "has_next"
    /\ LastResponse.payload["has_next"] = JsonBool(FALSE)
    /\ (Len(outbox) > 1 \/ request.original_occurred_at = None)

\* the labelled state of the set at the default cursor
LabelsOfSet(req) ==
    {e \in SetState(events, [RequestQuery(req, req.sets[1])
                               EXCEPT !.original_occurred_at = MaxStateTime + 2]) :
        e.label # None}

\* C25: reading one set page by page from the default cursor, each time with
\* the last returned event's original_occurred_at as the next cursor, until
\* has_next is false, returns each label of the set exactly once, with its
\* latest version: no label is skipped and none is returned on two pages.
\* Stated for the logs whose events all carry a label.
C25_PagesEnumerateLabels ==
    (PagingEnded /\ \A e \in events : e.label # None) =>
        LET all == PagesFrom(request.sets[1], 1)
        IN \A e \in LabelsOfSet(request) :
              /\ \E i \in DOMAIN all : all[i] = e
              /\ Cardinality({i \in DOMAIN all : all[i].label = e.label}) = 1

\* the versions of a label the request can see: those below its cursors
VersionsBelow(req, set, label) ==
    {e \in events : /\ e.room_id = req.room_id
                     /\ e.set = set
                     /\ e.label = label
                     /\ e.deleted_at = None
                     /\ e.original_occurred_at < CursorOf(req)
                     /\ (req.occurred_at # None => e.occurred_at < Get(req.occurred_at))}

Latest(versions) == CHOOSE x \in versions : \A y \in versions \ {x} : VersionBefore(y, x)

LabelsIn(set) == {e.label : e \in {x \in events : x.set = set /\ x.label # None}}

InPage(req, set, label) ==
    \E i \in DOMAIN PageOf(LastResponse, set) : PageOf(LastResponse, set)[i].label = label

\* C26: with an attribute filter, state.read returns a label only when the
\* latest version of that label below the cursor carries the requested
\* attribute, and then it returns that version; a label that was pinned and
\* later re-posted without the attribute is omitted.
C26_FilterOnLatestVersion ==
    (Answered /\ rooms = {StateRoom} /\ request.attribute # None) =>
        \A set \in PlainSets(request) : \A label \in LabelsIn(set) :
            LET versions == VersionsBelow(request, set, label)
                page == PageOf(LastResponse, set)
            IN /\ InPage(request, set, label) =>
                    /\ versions # {}
                    /\ Latest(versions).attribute = request.attribute
               /\ \A i \in DOMAIN page :
                    page[i].label = label => page[i] = Latest(versions)

\* a label whose pinned version was followed by a version without the
\* attribute was read with the filter "pinned" and left out
C26_Witness ==
    /\ Answered
    /\ request.attribute = Some("pinned")
    /\ \E label \in LabelsIn("messages") :
          LET versions == VersionsBelow(request, "messages", label)
          IN /\ \E v \in versions : v.attribute = Some("pinned")
             /\ Latest(versions).attribute = None
             /\ ~InPage(request, "messages", label)

\* the rows without a label that the request can see and that pass its filters
UnlabeledState(req, set) ==
    {e \in VersionsBelow(req, set, None) :
        e.attribute # Some("deleted") /\ (req.attribute # None => e.attribute = req.attribute)}

\* C27 as stated: for each (set, label) the state holds the row with the
\* greatest original_occurred_at among the rows that satisfy the caller's
\* filters (attribute, time bounds) and are not tombstoned.
C27_LatestAmongFiltered ==
    (Answered /\ rooms = {StateRoom}) =>
        \A set \in PlainSets(request) : \A label \in LabelsIn(set) :
            LET eligible == {v \in VersionsBelow(request, set, label) :
                               /\ v.attribute # Some("deleted")
                               /\ (request.attribute # None => v.attribute = request.attribute)}
                page == PageOf(LastResponse, set)
            IN (eligible # {} /\ Len(page) < EffectiveLimit(request)
                  /\ LastResponse.payload[set].tag = "array")
                 => \E i \in DOMAIN page : page[i] = Latest(eligible)

\* C27, amended: for each (set, label) the row with the greatest
\* original_occurred_at among the rows within the time bounds is selected,
\* and it belongs to the state exactly when it carries the requested
\* attribute (if one is requested) and is no tombstone; events without a
\* label are never deduplicated.  Read off an array not cut by the limit.
C27_LatestThenFiltered ==
    (Answered /\ rooms = {StateRoom}) =>
        \A set \in PlainSets(request) :
            LET page == PageOf(LastResponse, set)
                whole == /\ Len(page) < EffectiveLimit(request)
                         /\ LastResponse.payload[set].tag = "array"
            IN /\ \A label \in LabelsIn(set) :
                    LET versions == VersionsBelow(request, set, label)
                        kept == /\ versions # {}
                                /\ Latest(versions).attribute # Some("deleted")
                                /\ (request.attribute # None =>
                                       Latest(versions).attribute = request.attribute)
                    IN /\ InPage(request, set, label) => kept
                       /\ (kept /\ whole) => InPage(request, set, label)
                       /\ \A i \in DOMAIN page :
                            page[i].label = label => page[i] = Latest(versions)
               /\ whole => \A e \in UnlabeledState(request, set) :
                              Cardinality({i \in DOMAIN page : page[i] = e}) = 1

\* a label whose latest version is a tombstone, with an earlier live
\* version, was read without an attribute filter and left out
C27_Witness ==
    /\ Answered
    /\ request.attribute = None
    /\ request.sets = <<"messages">>
    /\ \E label \in LabelsIn("messages") :
          LET versions == VersionsBelow(request, "messages", label)
          IN /\ \E v \in versions : v.attribute # Some("deleted")
             /\ Latest(versions).attribute = Some("deleted")
             /\ ~InPage(request, "messages", label)

\* the versions of a label at query time t, under the request's occurred_at bound
VersionsAt(req, set, label, t) ==
    {e \in events : /\ e.room_id = req.room_id
                     /\ e.set = set
                     /\ e.label = label
                     /\ e.deleted_at = None
                     /\ e.original_occurred_at < t
                     /\ (req.occurred_at # None => e.occurred_at < Get(req.occurred_at))}

\* the label is present in the state of the set at query time t
PresentAt(req, set, label, t) ==
    /\ VersionsAt(req, set, label, t) # {}
    /\ Latest(VersionsAt(req, set, label, t)).attribute # Some("deleted")

TombstonedBetween(set, label, t1, t2) ==
    \E e \in events : /\ e.set = set
                       /\ e.label = label
                       /\ e.attribute = Some("deleted")
                       /\ t1 <= e.original_occurred_at
                       /\ e.original_occurred_at < t2

\* a response that holds the whole state of the set, read without an
\* attribute filter
WholeState(set) ==
    /\ Answered
    /\ rooms = {StateRoom}
    /\ request.attribute = None
    /\ LastResponse.payload[set].tag = "array"
    /\ Len(PageOf(LastResponse, set)) < EffectiveLimit(request)

---------------------------------------------------------------------------
(* Vacuum *)

Vacuumed == request.pc = "scheduled" /\ request.method = "system.vacuum" /\ request.runs >= 1

Preserved(e) == RoomById(rooms, e.room_id).preserve_history

\* the rows of a room, by id
RowsOf(evs, room_id) == {e.id : e \in {o \in evs : o.room_id = room_id}}

\* C29: once the vacuum has run, every event that a room with
\* preserve_history = true had before is still in the log, whatever the
\* ages, the number and the attributes of its versions and whatever the
\* configuration of the vacuum.
C29_PreservedRoomsUntouched ==
    Vacuumed => \A e \in store0.events : Preserved(e) => e \in events

\* a preserved room keeps a version that the vacuum removes elsewhere: an
\* expired tombstone or a version beyond the kept history, while the same
\* run deleted rows of another room
C29_Witness ==
    /\ Vacuumed
    /\ events # store0.events
    /\ \E e \in events :
          /\ Preserved(e)
          /\ \/ ExpiredTombstone(store0.events, e, request.config, request.ran_at)
             \/ SurplusVersion(store0.events, e, request.config, request.ran_at)

\* C30: in a room with preserve_history = false, once the vacuum has run,
\* every labelled group whose latest version is not an expired tombstone
\* still has that latest version; no other version older than
\* max_history_lifetime is left; no version beyond the max_history_size
\* most recent ones is left; and the label with versions aged 70 and 30
\* minutes under max_history_size = 2 and a lifetime of one hour loses only
\* the 70-minute version.
C30_PruningKeepsLatest ==
    Vacuumed =>
        /\ \A e \in store0.events :
              (/\ ~Preserved(e)
               /\ e.label # None
               /\ e = LatestOf(VersionsOf(store0.events, e))
               /\ ~ExpiredTombstone(store0.events, e, request.config, request.ran_at))
              => e \in events
        /\ \A e \in events :
              (/\ ~Preserved(e)
               /\ e.label # None
               /\ e # LatestOf(VersionsOf(store0.events, e)))
              => /\ request.ran_at - e.created_at <= request.config.max_history_lifetime
                 /\ ReverseOrdinal(store0.events, e) <= request.config.max_history_size
        /\ (/\ store0.events = VacuumHistoryEvents(Some("drawing1"))
            /\ request.config = VacuumConfig(2, 60, 16667))
           => RowsOf(events, 1) = {2}

\* tests::vacuum_history after the run: the first room lost the 70-minute
\* version and kept the 30-minute one, the second lost the oldest of three
C30_Witness ==
    /\ Vacuumed
    /\ store0.events = VacuumHistoryEvents(Some("drawing1"))
    /\ RowsOf(store0.events, 1) = {1, 2}
    /\ RowsOf(events, 1) = {2}
    /\ RowsOf(events, 2) = {4, 5}

---------------------------------------------------------------------------
(* Authorization *)

GuardedMethods ==
    {"edition.create", "edition.list", "edition.delete", "state.read", "room.dump_events"}

\* the handler of the request in flight asked the authorization and was refused
RequestRefused ==
    /\ request.pc \notin {"none", "scheduled", "received"}
    /\ request.method \in GuardedMethods
    /\ request.authz_calls > 0
    /\ ~request.authorized

\* edition.commit found the edition of task t and was refused
CommitRefused(t) ==
    /\ task[t].pc # "request"
    /\ task[t].edition_id \in store0.editions
    /\ ~task[t].authorized

\* one message went out, the response with status 403
OnlyForbidden ==
    /\ Len(outbox) = 1
    /\ outbox[1].type = "response"
    /\ outbox[1].status = "FORBIDDEN"

\* rooms, events and editions are the ones the request found
NothingWritten ==
    /\ rooms = store0.rooms
    /\ events = store0.events
    /\ editions = store0.editions
    /\ origin = <<>>

\* C21: when the authorization refuses edition.create, edition.list,
\* edition.delete, edition.commit, state.read or room.dump_events, from
\* then on exactly one message has gone out, a response with status 403;
\* rooms, events and editions are unchanged; no commit task and no dump
\* task runs; no notification is broadcast.
C21_AuthorizationFailClosed ==
    /\ RequestRefused =>
          /\ OnlyForbidden
          /\ NothingWritten
          /\ request.pc = "responded"
          /\ request.authz_calls = 1
          /\ task = <<>>
          /\ Broadcasts = {}
    /\ \A t \in DOMAIN task :
          CommitRefused(t) =>
              /\ OnlyForbidden
              /\ NothingWritten
              /\ task[t].pc = "rejected"
              /\ task[t].destination = None
              /\ Broadcasts = {}

\* tests::delete::delete_edition_not_authorized: the edition exists, the
\* authorization refuses, the edition is still there and a 403 went out
C21_Witness ==
    /\ RequestRefused
    /\ request.method = "edition.delete"
    /\ request.id \in editions
    /\ outbox = <<ErrorResponse("access_denied")>>

---------------------------------------------------------------------------
(* Vacuum: the history rule and the tombstone rule *)

\* the versions the log held before the vacuum, for a version of a room
\* that is pruned
Pruned(e) == ~Preserved(e) /\ e.label # None

Group(e) == VersionsOf(store0.events, e)

Age(e) == request.ran_at - e.created_at

\* the non-current versions of the group of e older than max_history_lifetime
OldVersions(e) ==
    {o \in Group(e) : o # LatestOf(Group(e)) /\ Age(o) > request.config.max_history_lifetime}

TombstoneExpired(e) == ExpiredTombstone(store0.events, e, request.config, request.ran_at)

\* C31 as stated: a group with at most max_history_size non-current
\* versions older than max_history_lifetime loses nothing to the history
\* rule (groups that the tombstone rule removes set aside).
C31_HistoryRuleNeedsSurplusOfOld ==
    Vacuumed =>
        \A e \in store0.events :
            (/\ Pruned(e)
             /\ ~TombstoneExpired(e)
             /\ Cardinality(OldVersions(e)) <= request.config.max_history_size)
            => e \in events

\* C31, amended: the history rule takes exactly the non-current versions
\* that are older than max_history_lifetime or lie beyond the
\* max_history_size most recent versions of their group; each of the two
\* conditions suffices, and a group loses nothing else to it.
C31_HistoryRuleAgeOrSurplus ==
    Vacuumed =>
        \A e \in store0.events :
            (Pruned(e) /\ ~TombstoneExpired(e)) =>
                (e \notin events <=>
                    /\ e # LatestOf(Group(e))
                    /\ \/ Age(e) > request.config.max_history_lifetime
                       \/ ReverseOrdinal(store0.events, e) > request.config.max_history_size)

\* tests::vacuum_history after the run: a group with one old non-current
\* version under max_history_size = 2 lost it, and a group of three young
\* versions lost its oldest
C31_Witness ==
    /\ Vacuumed
    /\ request.config = VacuumConfig(2, 60, 16667)
    /\ \E e \in store0.events :
          /\ Pruned(e) /\ e \notin events
          /\ Cardinality(OldVersions(e)) = 1
    /\ \E e \in store0.events :
          /\ Pruned(e) /\ e \notin events
          /\ OldVersions(e) = {}

\* C32 as stated: an expired tombstone takes every version of its label
\* with it, and a label whose tombstone is younger than max_deleted_lifetime
\* loses no version at all to the vacuum.
C32_TombstoneAllOrNothing ==
    Vacuumed =>
        \A e \in store0.events :
            (Pruned(e) /\ LatestOf(Group(e)).attribute = Some("deleted")) =>
                IF Age(LatestOf(Group(e))) > request.config.max_deleted_lifetime
                  THEN e \notin events
                ELSE e \in events

\* C32, amended: in a pruned room, when the latest version of a label is a
\* tombstone older than max_deleted_lifetime no version of the label is
\* left; when the tombstone is not older than that, the tombstone stays and
\* the versions before it are lost only to the history rule.
C32_TombstoneRule ==
    Vacuumed =>
        \A e \in store0.events :
            (Pruned(e) /\ LatestOf(Group(e)).attribute = Some("deleted")) =>
                IF Age(LatestOf(Group(e))) > request.config.max_deleted_lifetime
                  THEN e \notin events
                ELSE e \notin events =>
                        SurplusVersion(store0.events, e, request.config, request.ran_at)

\* tests::vacuum_deleted after the run: the first room is empty, the second
\* keeps the live version and the young tombstone
C32_Witness ==
    /\ Vacuumed
    /\ store0.events = VacuumDeletedEvents
    /\ RowsOf(store0.events, 1) = {1, 2}
    /\ RowsOf(events, 1) = {}
    /\ RowsOf(events, 2) = {3, 4}

\* a tombstone of the group of e that a later live version follows
Restored(e) ==
    /\ LatestOf(Group(e)).attribute # Some("deleted")
    /\ \E o \in Group(e) : o.attribute = Some("deleted")

\* C33: in a pruned room, a label with a tombstone and a later version
\* that is not one loses no version to the tombstone rule, however old the
\* tombstone: every version the history rule spares is still there, the
\* latest one among them; of the versions at -100, -90 (deleted) and -10
\* minutes none is removed.
C33_RestorationKeepsLabel ==
    Vacuumed =>
        /\ \A e \in store0.events :
              (Pruned(e) /\ Restored(e)) =>
                  /\ LatestOf(Group(e)) \in events
                  /\ ~SurplusVersion(store0.events, e, request.config, request.ran_at)
                       => e \in events
        /\ (/\ store0.events = VacuumRestoredEvents
            /\ request.config = VacuumConfig(100, 16667, 60))
           => events = store0.events

\* the restored label after the run: the tombstone is older than
\* max_deleted_lifetime and the three versions are there
C33_Witness ==
    /\ Vacuumed
    /\ store0.events = VacuumRestoredEvents
    /\ \E e \in events :
          /\ e.attribute = Some("deleted")
          /\ Restored(e)
          /\ Age(e) > request.config.max_deleted_lifetime
    /\ Cardinality(events) = 3

---------------------------------------------------------------------------
(* Room time bounds on the wire *)

Serialized == request.method = "serde" /\ request.pc \in {"serialized", "deserialized"}

\* the whole seconds around the bounds of the inputs
WholeSeconds == (0 - 2)..(MaxBoundTime \div 2 + 2)

\* the whole second s lies within the bounds
InBounds(value, s) ==
    /\ CASE value[1][1] = "Included" -> FromTimestamp(s) >= value[1][2]
          [] value[1][1] = "Excluded" -> FromTimestamp(s) > value[1][2]
          [] OTHER -> TRUE
    /\ CASE value[2][1] = "Included" -> FromTimestamp(s) <= value[2][2]
          [] value[2][1] = "Excluded" -> FromTimestamp(s) < value[2][2]
          [] OTHER -> TRUE

\* the whole second s lies within the closed-open tuple
InTuple(tuple, s) ==
    /\ tuple[1] # None => s >= Get(tuple[1])
    /\ tuple[2] # None => s < Get(tuple[2])

ClosedOpen(value) ==
    /\ value[1][1] \in {"Included", "Unbounded"}
    /\ value[2][1] \in {"Excluded", "Unbounded"}

\* C36: the serialized tuple [lt, rt) denotes the same whole seconds as the
\* bounds it was made of, whatever the kind of either bound, and a value
\* with an included or absent start and an excluded or absent end is read
\* back as it was.
C36_BoundTupleFaithful ==
    /\ Serialized =>
          \A s \in WholeSeconds : InTuple(request.tuple, s) <=> InBounds(request.value, s)
    /\ (Serialized /\ request.pc = "deserialized" /\ ClosedOpen(request.value)) =>
          request.back = request.value

---------------------------------------------------------------------------
(* The commit and its inputs *)

SourceEvents == {e \in events : e.room_id = SourceRoom}

\* the rooms the commits have inserted
DestinationRooms == {r \in rooms : \E t \in Tasks : task[t].destination = Some(r.id)}

\* C34: whatever the commits have done so far, finished, failed or under
\* way, the event rows of the source room, the change rows and the editions
\* are exactly the ones the commits started from; the only rooms added are
\* destination rooms, and every other event row belongs to one of them.
C34_CommitLeavesInputs ==
    /\ SourceEvents = store0.events
    /\ changes = store0.changes
    /\ editions = store0.editions
    /\ store0.rooms \subseteq rooms
    /\ rooms \ store0.rooms \subseteq DestinationRooms
    /\ \A e \in events \ store0.events : \E r \in DestinationRooms : e.room_id = r.id

\* two commits have ended, one with a destination stripped of its stream
\* events and one that failed after cloning
C34_Witness ==
    /\ \E t \in Tasks :
          /\ Committed(t)
          /\ DestinationEvents(t) # {}
          /\ \E id \in Inserted(t) : id \notin {e.id : e \in events}
    /\ \E t \in Tasks : task[t].pc = "failed" /\ DestinationEvents(t) # {}
    /\ \E e \in store0.events : e.kind = "stream"

---------------------------------------------------------------------------
(* Commits side by side *)

\* what the commit of task t computes when it runs alone on the store the
\* two commits started from
AloneGaps(t) ==
    collect_gaps(EventListQuery(store0.events, task[t].source_id, "stream"),
                 ChangeListQuery(store0.changes, task[t].edition_id, "stream"))

AloneRows(t) ==
    Subquery(store0.events, store0.changes, task[t].source_id, task[t].edition_id,
             AloneGaps(t).gaps, clock)

\* a destination row without the id it was given: the event and the change
\* it was computed from, and its columns
Derived(e) ==
    [event |-> origin[e.id].event, change |-> origin[e.id].change, kind |-> e.kind,
     set |-> e.set, label |-> e.label, data |-> e.data, occurred_at |-> e.occurred_at,
     created_by |-> e.created_by, created_at |-> e.created_at]

\* the same of the rows the commit run alone inserts for an order o of
\* the window function, stream events left out
AloneLog(o) ==
    {[event |-> IF o[i].event = None THEN None ELSE Some(Get(o[i].event).id),
      change |-> IF o[i].change = None THEN None ELSE Some(Get(o[i].change).id),
      kind |-> Get(o[i].kind), set |-> Get(o[i].set), label |-> o[i].label,
      data |-> Get(o[i].data), occurred_at |-> TieBreak(o, i),
      created_by |-> Get(o[i].created_by), created_at |-> o[i].created_at] :
        i \in {j \in DOMAIN o : o[j].kind # Some("stream")}}

\* the commit of t run alone succeeds
AloneSucceeds(t) ==
    /\ RoomDuration(RoomById(store0.rooms, task[t].source_id).time) # None
    /\ AloneGaps(t).status = "ok"
    /\ \A row \in AloneRows(t) : NotNullOk(row)

\* C35: two commits interleaved step by step, of two editions or of one:
\* each committed task has a destination room of its own; its log, row by
\* row with the event and the change each row comes from, is a log the same
\* commit produces when it runs alone on the initial store, and so are its
\* segments; no row of it comes from a change of another edition.
C35_CommitsIndependent ==
    \A t \in Tasks :
        Committed(t) =>
            /\ \A u \in Tasks \ {t} : task[u].destination # task[t].destination
            /\ AloneSucceeds(t)
            /\ \E o \in WindowOrders(AloneRows(t)) :
                  {Derived(e) : e \in DestinationEvents(t)} = AloneLog(o)
            /\ task[t].segments =
                  ModifiedSegments(invert_segments(AloneGaps(t).gaps,
                      Get(RoomDuration(RoomById(store0.rooms, task[t].source_id).time))))
            /\ \A id \in Inserted(t) :
                  origin[id].change # None =>
                      ChangeById(Get(origin[id].change)).edition_id = task[t].edition_id

\* both commits are done, of two editions, and their destinations differ
\* in a row that comes from a change
C35_Witness ==
    /\ \A t \in Tasks : Committed(t)
    /\ task[1].edition_id # task[2].edition_id
    /\ \E e \in DestinationEvents(1) :
          /\ origin[e.id].change # None
          /\ \A x \in DestinationEvents(2) : origin[x.id].change # origin[e.id].change
    /\ task[1].segments # task[2].segments

\* the row of the destination of t that was computed from the event and
\* the change of row e
Counterpart(t, e) ==
    {x \in DestinationEvents(t) :
        origin[x.id].event = origin[e.id].event /\ origin[x.id].change = origin[e.id].change}

\* C39: the assignment of occurred_at is a function of the inputs: two
\* commits of the same edition over the same source log and changes give
\* every row the same occurred_at, rows that collide on a compressed time
\* and a created_at included.
C39_TieBreakDeterministic ==
    (/\ \A t \in Tasks : Committed(t)
     /\ task[1].edition_id = task[2].edition_id) =>
        \A e \in DestinationEvents(1) :
            \A x \in Counterpart(2, e) : x.occurred_at = e.occurred_at

---------------------------------------------------------------------------
(* The gap list and the destination times *)

\* the cut-stops that close an outermost cut
ClosingStops(seq) == {i \in DOMAIN seq : CmdAt(seq, i) = "stop" /\ Balance(seq, i) = 0}

\* C38: when gap analysis succeeds, every gap has start <= stop, each gap
\* ends no later than the next one starts (so the list is sorted by start
\* and pairwise disjoint), and there are as many gaps as cut-stop markers
\* met at nesting depth 0.
C38_GapsSortedDisjoint ==
    \A t \in Tasks :
        task[t].collected.status = "ok" =>
            LET gaps == task[t].collected.gaps
            IN /\ \A i \in DOMAIN gaps : gaps[i][1] <= gaps[i][2]
               /\ \A i \in DOMAIN gaps : i < Len(gaps) => gaps[i][2] <= gaps[i + 1][1]
               /\ Len(gaps) = Cardinality(ClosingStops(Cuts(t)))

\* two gaps with time between them came out of four markers, one for each
\* stop that closes a cut
C38_Witness ==
    \E t \in Tasks :
        /\ task[t].collected.status = "ok"
        /\ Len(task[t].collected.gaps) = 2
        /\ task[t].collected.gaps[1][2] < task[t].collected.gaps[2][1]
        /\ Cardinality(ClosingStops(Cuts(t))) = 2

\* the occurred_at values a commit is given are not negative
NonNegativeInputs ==
    /\ \A e \in store0.events : e.occurred_at >= 0
    /\ \A c \in store0.changes :
          c.event_occurred_at # None => Get(c.event_occurred_at) >= 0

\* C37: on a source log and a change set with non-negative occurred_at
\* values, every event of a destination room has occurred_at >= 0.
C37_DestinationTimesNonNegative ==
    NonNegativeInputs =>
        \A t \in Tasks : \A e \in DestinationEvents(t) : e.occurred_at >= 0

---------------------------------------------------------------------------
(* A commit beside writers *)

\* what the commit of task t computes from the single snapshot s
SnapshotGaps(s, t) ==
    collect_gaps(EventListQuery(s.events, task[t].source_id, "stream"),
                 ChangeListQuery(s.changes, task[t].edition_id, "stream"))

SnapshotRows(s, t, now) ==
    Subquery(s.events, s.changes, task[t].source_id, task[t].edition_id,
             SnapshotGaps(s, t).gaps, now)

\* the destination log and the segments of t are the transform of s
TransformOf(s, t) ==
    /\ SnapshotGaps(s, t).status = "ok"
    /\ task[t].segments =
          ModifiedSegments(invert_segments(SnapshotGaps(s, t).gaps, task[t].room_duration))
    /\ \E now \in 0..clock :
          /\ \A row \in SnapshotRows(s, t, now) : NotNullOk(row)
          /\ \E o \in WindowOrders(SnapshotRows(s, t, now)) :
                {Derived(e) : e \in DestinationEvents(t)} = AloneLog(o)

\* C40: events are inserted into the source room and changes are added to
\* or deleted from the edition while a commit runs: the destination log
\* and the segments of a committed task are the transform of one of the
\* states the source log and the change set have gone through, gaps
\* included.
C40_SnapshotConsistency ==
    \A t \in Tasks :
        Committed(t) => \E s \in request.snapshots : TransformOf(s, t)

=============================================================================
